---- MODULE Spec2Model ----
(***************************************************************************)
(* Model of the SPHEREx documentation portal's ingestion core:             *)
(*   - the Redis-backed category stores (repositories/projects.py),        *)
(*   - the refresh run of ProjectService (services/projectservice.py),     *)
(*   - the object-store metadata client (repositories/s3metadata.py),      *)
(*   - the documentation-host client's token cache (repositories/ltdapi.py). *)
(* Python strings are sequences of one-character strings, so that slicing, *)
(* prefix tests, concatenation and ordering are computed, not assumed.     *)
(* Strings that no operation inspects (titles, tags) are TLA+ strings.     *)
(* Optional values are <<>> (None) or <<v>>.                               *)
(***************************************************************************)
EXTENDS Integers, Sequences, FiniteSets, TLC

VARIABLES
    redis,          \* Redis keyspace: full key (prefix + project_id) -> document
    written,        \* history: key_prefix -> (project_id -> last document given to upsert)
    result,         \* last get_all call: [prefix, projects]
    config,         \* process configuration (config.py)
    ltd,            \* documentation host: organization and project list
    s3,             \* object store: slug -> metadata object (<<>> when the fetch fails)
    github,         \* source host: repository URL -> what the API answers
    pc,             \* position of the refresh run
    org,            \* organization descriptor fetched by the run
    projects,       \* project list fetched by the run
    idx,            \* index of the next project to ingest
    warnings,       \* warning records logged by the current run
    error,          \* exception that ended the current run, <<>> if none
    runs,           \* number of refresh runs started
    ingested,       \* history: slugs upserted by the current run
    startStore,     \* history: redis when the current run started
    calls,          \* number of upsert calls made directly on the stores
    bucket,         \* object store: object key -> what a GET of it answers
    fetched,        \* last Bucket.get_ssdc_ms_metadata call: [handle, out]
    now,            \* the clock TTLCache reads, in seconds
    cache,          \* get_auth_token's TTLCache: key -> [value, expires]
    callers,        \* refresh runs using the documentation host: run -> [pc, token]
    inflight,       \* runs whose GET /token is awaiting its response
    exchanges,      \* history: the GET /token requests sent, [caller, sent, done]
    reader,         \* a get_all call in progress: [pc, category, keys, projects, reads, during]
    writes,         \* upserts completed by each concurrent writer
    last,           \* history: the upsert that completed last, [writer, category, project]
    committed,      \* history: every [key, project] an upsert has committed
    seedfile,       \* the seed file: <<>> if it is not YAML, else <<category -> raw entries>>
    mockdata,       \* MockDataRepository._data once the file is parsed
    loader,         \* the seed load: [pc, next, error, start]
    dataset,        \* DocumentRepository._data: the parsed dataset
    listing,        \* last get_ms_by_handle call: [ascending, documents]
    entity          \* last domain value constructed: [kind, input, value]

storeVars == <<redis, written, result, calls>>
upstreamVars == <<config, ltd, s3, github>>
runVars == <<pc, org, projects, idx, warnings, error, runs, ingested,
             startStore>>
bucketVars == <<bucket, fetched>>
tokenVars == <<now, cache, callers, inflight, exchanges>>
concurrentVars == <<reader, writes, last, committed>>
seedVars == <<seedfile, mockdata, loader>>
datasetVars == <<dataset, listing>>
domainVars == <<entity>>
otherVars == <<bucketVars, tokenVars, concurrentVars, seedVars, datasetVars,
               domainVars>>
vars == <<redis, written, result, calls, config, ltd, s3, github, pc, org,
          projects, idx, warnings, error, runs, ingested, startStore,
          otherVars>>

None == <<>>
Some(v) == <<v>>

(***************************************************************************)
(* Bounds                                                                  *)
(***************************************************************************)
MaxProjects == 3    \* longest project list the documentation host returns
MaxFaults == 1      \* listed projects whose upstream data is not nominal
MaxRuns == 2        \* refresh runs per behaviour
MaxUpserts == 3     \* upsert calls per behaviour of the store specification
MaxCallers == 2     \* refresh runs that use the documentation host
MaxTime == 1200     \* last clock value, in seconds
MaxWrites == 2      \* upserts per concurrent writer
MaxReads == 1       \* get_all calls of the concurrent reader
MaxSeedEntries == 2 \* entries of the seed file, all categories together
MaxDocuments == 3   \* Module-Spec documents of the static dataset
MaxWall == 1        \* last wall-clock value of a datetime given to a constructor
MaxLevel == 10      \* highest pipeline level the metadata gives
MaxIndex == 100     \* highest diagram index the metadata gives

(***************************************************************************)
(* Python str operations                                                   *)
(***************************************************************************)
\* Characters in code point order (the part of ASCII the keys and handles use).
Alphabet ==
    <<"-", ".", "/", "0", "1", "2", "3", "4", "5", "6", "7", "8", "9", ":",
      "A", "B", "C", "D", "E", "F", "G", "H", "I", "J", "K", "L", "M", "N",
      "O", "P", "Q", "R", "S", "T", "U", "V", "W", "X", "Y", "Z",
      "_", "a", "b", "c", "d", "e", "f", "g", "h", "i", "j", "k", "l", "m",
      "n", "o", "p", "q", "r", "s", "t", "u", "v", "w", "x", "y", "z">>

Ord(c) == CHOOSE i \in 1..Len(Alphabet) : Alphabet[i] = c

\* a < b for Python str: lexicographic by code point, a proper prefix first.
RECURSIVE StrLess(_, _)
StrLess(a, b) ==
    IF b = <<>> THEN FALSE
    ELSE IF a = <<>> THEN TRUE
    ELSE IF Head(a) = Head(b) THEN StrLess(Tail(a), Tail(b))
    ELSE Ord(Head(a)) < Ord(Head(b))

startswith(s, p) == Len(s) >= Len(p) /\ SubSeq(s, 1, Len(p)) = p

endswith(s, p) == Len(s) >= Len(p) /\ SubSeq(s, Len(s) - Len(p) + 1, Len(s)) = p

UpperCase ==
    <<"A", "B", "C", "D", "E", "F", "G", "H", "I", "J", "K", "L", "M", "N",
      "O", "P", "Q", "R", "S", "T", "U", "V", "W", "X", "Y", "Z">>

LowerCase ==
    <<"a", "b", "c", "d", "e", "f", "g", "h", "i", "j", "k", "l", "m", "n",
      "o", "p", "q", "r", "s", "t", "u", "v", "w", "x", "y", "z">>

\* s.lower()
lower(s) ==
    [i \in 1..Len(s) |->
        IF \E j \in 1..Len(UpperCase) : UpperCase[j] = s[i]
        THEN LowerCase[CHOOSE j \in 1..Len(UpperCase) : UpperCase[j] = s[i]]
        ELSE s[i]]

\* s[:n]
Slice(s, n) == SubSeq(s, 1, IF n < Len(s) THEN n ELSE Len(s))

\* s.split(sep) for a one-character separator.
RECURSIVE SplitAcc(_, _, _)
SplitAcc(s, sep, cur) ==
    IF s = <<>> THEN <<cur>>
    ELSE IF Head(s) = sep THEN <<cur>> \o SplitAcc(Tail(s), sep, <<>>)
    ELSE SplitAcc(Tail(s), sep, Append(cur, Head(s)))

split(s, sep) == SplitAcc(s, sep, <<>>)

(***************************************************************************)
(* Category stores: SpherexProjectStore over PydanticRedisStorage          *)
(***************************************************************************)
\* ProjectRepository.create: one key prefix per category.
KeyPrefix ==
    [ssdc_ms |-> <<"s","s","d","c","_","m","s",":">>,
     ssdc_pm |-> <<"s","s","d","c","_","p","m",":">>,
     ssdc_if |-> <<"s","s","d","c","_","i","f",":">>,
     ssdc_dp |-> <<"s","s","d","c","_","d","p",":">>,
     ssdc_tr |-> <<"s","s","d","c","_","t","r",":">>,
     ssdc_tn |-> <<"s","s","d","c","_","t","n",":">>,
     ssdc_op |-> <<"s","s","d","c","_","o","p",":">>]

Categories == DOMAIN KeyPrefix

\* PydanticRedisStorage.store: SET prefix+key to the serialized object.
\* Variant: when the key exists only the title of the stored object changes.
storeTitleOnly(r, prefix, key, obj) ==
    [k \in DOMAIN r \cup {prefix \o key} |->
        IF k = prefix \o key
        THEN IF k \in DOMAIN r THEN [r[k] EXCEPT !.title = obj.title] ELSE obj
        ELSE r[k]]

\* Variant: storing an object drops the other keys under the prefix.
storeAlone(r, prefix, key, obj) ==
    [k \in {f \in DOMAIN r : ~startswith(f, prefix)} \cup {prefix \o key} |->
        IF k = prefix \o key THEN obj ELSE r[k]]

\* PydanticRedisStorage.store: one SET of the serialized object.
store(r, prefix, key, obj) ==
    [k \in DOMAIN r \cup {prefix \o key} |->
        IF k = prefix \o key THEN obj ELSE r[k]]

\* PydanticRedisStorage.scan("*"): the keys under the prefix, prefix removed.
scan(r, prefix) ==
    {SubSeq(k, Len(prefix) + 1, Len(k)) : k \in {f \in DOMAIN r : startswith(f, prefix)}}

\* PydanticRedisStorage.get: the object, or None when the key is missing.
get(r, prefix, key) ==
    IF prefix \o key \in DOMAIN r THEN Some(r[prefix \o key]) ELSE None

\* The least key of a non-empty set.
MinKey(S) == CHOOSE k \in S : \A o \in S \ {k} : StrLess(k, o)

\* Variant: the keys in descending order.
RECURSIVE SortKeysDescending(_)
SortKeysDescending(S) ==
    IF S = {} THEN <<>>
    ELSE LET k == MinKey(S) IN SortKeysDescending(S \ {k}) \o <<k>>

\* list.sort() on the scanned keys.
RECURSIVE SortKeys(_)
SortKeys(S) ==
    IF S = {} THEN <<>>
    ELSE LET k == MinKey(S) IN <<k>> \o SortKeys(S \ {k})

\* SpherexProjectStore.get_all
RECURSIVE CollectProjects(_, _, _)
CollectProjects(r, prefix, keys) ==
    IF keys = <<>> THEN <<>>
    ELSE LET project == get(r, prefix, Head(keys))
         IN  (IF project # None THEN <<project[1]>> ELSE <<>>)
                 \o CollectProjects(r, prefix, Tail(keys))

get_all(r, prefix) == CollectProjects(r, prefix, SortKeys(scan(r, prefix)))

\* Variant: an existing entry is kept and the new document dropped.
upsertKeepExisting(r, prefix, project) ==
    IF prefix \o project.project_id \in DOMAIN r
    THEN r
    ELSE store(r, prefix, project.project_id, project)

\* Variant: a document whose key exists is appended under a second key.
upsertAppend(r, prefix, project) ==
    IF prefix \o project.project_id \in DOMAIN r
    THEN store(r, prefix, project.project_id \o <<"-","2">>, project)
    ELSE store(r, prefix, project.project_id, project)

\* Variant: the document replaces the entry of its project_id in every
\* category that has one.
upsertEveryCategory(r, prefix, project) ==
    [k \in DOMAIN r \cup {prefix \o project.project_id} |->
        IF \E c \in Categories : k = KeyPrefix[c] \o project.project_id
        THEN project
        ELSE r[k]]

\* Variant: the keyspace is flushed before the document is stored.
upsertFlushed(r, prefix, project) ==
    [k \in {prefix \o project.project_id} |-> project]

\* SpherexProjectStore.upsert
upsert(r, prefix, project) == store(r, prefix, project.project_id, project)

(***************************************************************************)
(* Domain model (domain.py)                                                *)
(***************************************************************************)
\* A datetime: wall-clock value and zone ("naive" when tzinfo is None).
Datetime(wall, tz) == [wall |-> wall, tz |-> tz]

\* Variant: every datetime is moved to the UTC zone.
_ensure_timezoneAlwaysUtc(dt) == [dt EXCEPT !.tz = "UTC"]

_ensure_timezone(dt) ==
    IF dt.tz = "naive" THEN [dt EXCEPT !.tz = "UTC"] ELSE dt

GitHubIssueCount(open_issue_count, open_pr_count, issue_url, pr_url) ==
    [open_issue_count |-> open_issue_count,
     open_pr_count |-> open_pr_count,
     issue_url |-> issue_url,
     pr_url |-> pr_url]

GitHubRelease(tag, date_created) ==
    [tag |-> tag, date_created |-> _ensure_timezone(date_created)]

\* The fields every category's document class shares (SpherexDocument).
SpherexDocument(url, series, handle, title, project_id, organization_id, github_url, github_issues, github_release, latest_commit_datetime, ssdc_author_name) ==
    [url |-> url,
     title |-> title,
     project_id |-> project_id,
     organization_id |-> organization_id,
     github_url |-> github_url,
     github_issues |-> github_issues,
     latest_commit_datetime |-> _ensure_timezone(latest_commit_datetime),
     github_release |-> github_release,
     series |-> series,
     handle |-> handle,
     ssdc_author_name |-> ssdc_author_name]

(***************************************************************************)
(* The projects the model draws from                                       *)
(***************************************************************************)
GitHubHost ==
    <<"h","t","t","p","s",":","/","/","g","i","t","h","u","b",".","c","o","m","/">>

OtherHost ==
    <<"h","t","t","p","s",":","/","/","g","i","t","l","a","b",".","c","o","m","/">>

OwnerLogin == <<"s","p","h","e","r","e","x">>

\* One project per category, and one whose slug names no category.
Universe ==
    <<[slug |-> <<"s","s","d","c","-","m","s","-","1">>, series |-> "SSDC-MS", store |-> "ssdc_ms"],
      [slug |-> <<"s","s","d","c","-","p","m","-","1">>, series |-> "SSDC-PM", store |-> "ssdc_pm"],
      [slug |-> <<"s","s","d","c","-","i","f","-","1">>, series |-> "SSDC-IF", store |-> "ssdc_if"],
      [slug |-> <<"s","s","d","c","-","d","p","-","1">>, series |-> "SSDC-DP", store |-> "ssdc_dp"],
      [slug |-> <<"s","s","d","c","-","t","r","-","1">>, series |-> "SSDC-TR", store |-> "ssdc_tr"],
      [slug |-> <<"s","s","d","c","-","t","n","-","1">>, series |-> "SSDC-TN", store |-> "ssdc_tn"],
      [slug |-> <<"s","s","d","c","-","m","x","-","1">>, series |-> "SSDC-MX", store |-> "none"],
      [slug |-> <<"s","s","d","c","-","o","p","-","1">>, series |-> "SSDC-OP", store |-> "ssdc_op"]>>

RepoUrl(host, slug) == host \o OwnerLogin \o <<"/">> \o slug

EmptyRedis == [k \in {} |-> None]

\* Documents as the seed loader leaves them (mockdata.py): counts and dates
\* from the file, no release.
SeedDocument(u) ==
    SpherexDocument(<<"d","o","c","s","/">> \o u.slug, u.series, u.series,
                    "seed", u.slug, "spherex", RepoUrl(GitHubHost, u.slug),
                    GitHubIssueCount(3, 1,
                        RepoUrl(GitHubHost, u.slug) \o <<"/","i","s","s","u","e","s">>,
                        RepoUrl(GitHubHost, u.slug) \o <<"/","p","u","l","l","s">>),
                    None, Datetime(1, "naive"), "author")

(***************************************************************************)
(* Store specification: callers of upsert and get_all                      *)
(***************************************************************************)
StoreCategories == {"ssdc_ms", "ssdc_pm", "ssdc_op"}

\* "ssdc-1" < "ssdc-10" < "ssdc-2" as Python orders str.
StoreIds ==
    {<<"s","s","d","c","-","2">>, <<"s","s","d","c","-","1","0">>,
     <<"s","s","d","c","-","1">>}

StoreTitles == {"first", "second"}

StoreDocument(id, title) ==
    SpherexDocument(<<"d","o","c","s","/">> \o id, "SERIES", "HANDLE", title,
                    id, "spherex", RepoUrl(GitHubHost, id),
                    GitHubIssueCount(0, 0,
                        RepoUrl(GitHubHost, id) \o <<"/","i","s","s","u","e","s">>,
                        RepoUrl(GitHubHost, id) \o <<"/","p","u","l","l","s">>),
                    None, Datetime(1, "UTC"), "author")

IdleBucket ==
    /\ bucket = EmptyRedis
    /\ fetched = None

IdleToken ==
    /\ now = 0
    /\ cache = EmptyRedis
    /\ callers = <<>>
    /\ inflight = {}
    /\ exchanges = <<>>

IdleConcurrent ==
    /\ reader = None
    /\ writes = <<>>
    /\ last = None
    /\ committed = {}

IdleSeed ==
    /\ seedfile = None
    /\ mockdata = None
    /\ loader = None

IdleDataset ==
    /\ dataset = None
    /\ listing = None

IdleDomain == entity = None

IdleOthers ==
    /\ IdleBucket /\ IdleToken /\ IdleConcurrent /\ IdleSeed
    /\ IdleDataset /\ IdleDomain

IdleStore ==
    /\ redis = EmptyRedis
    /\ written = [c \in Categories |-> EmptyRedis]
    /\ result = None
    /\ calls = 0

IdleRun ==
    /\ config = [aws_access_key_id |-> FALSE, aws_access_key_secret |-> FALSE,
                 github_factory |-> FALSE]
    /\ ltd = [org |-> [slug |-> "spherex", s3_bucket |-> None], projects |-> <<>>]
    /\ s3 = EmptyRedis
    /\ github = EmptyRedis
    /\ pc = "NotStarted"
    /\ org = None
    /\ projects = None
    /\ idx = 0
    /\ warnings = <<>>
    /\ error = None
    /\ runs = 0
    /\ ingested = {}
    /\ startStore = EmptyRedis

InitStore ==
    /\ redis = EmptyRedis
    /\ written = [c \in Categories |-> EmptyRedis]
    /\ result = None
    /\ calls = 0
    /\ IdleRun
    /\ IdleOthers

\* A caller upserts a document into one category store.
Upsert(c, project) ==
    /\ calls < MaxUpserts
    /\ redis' = upsert(redis, KeyPrefix[c], project)
    /\ written' = [written EXCEPT ![c] =
                     [k \in DOMAIN written[c] \cup {project.project_id} |->
                        IF k = project.project_id THEN project ELSE written[c][k]]]
    /\ result' = None
    /\ calls' = calls + 1
    /\ UNCHANGED <<upstreamVars, runVars, otherVars>>

\* A caller reads one category store.
GetAll(c) ==
    /\ result' = Some([category |-> c, projects |-> get_all(redis, KeyPrefix[c])])
    /\ UNCHANGED <<redis, written, calls, upstreamVars, runVars, otherVars>>

NextStore ==
    \/ \E c \in StoreCategories, id \in StoreIds, t \in StoreTitles :
          Upsert(c, StoreDocument(id, t))
    \/ \E c \in StoreCategories : GetAll(c)

SpecStore == InitStore /\ [][NextStore]_vars


(***************************************************************************)
(* Upstream systems as the refresh run sees them                           *)
(***************************************************************************)
\* What the sources answer for one listed project.
Profiles ==
    {"nominal", "metadata_error", "other_host", "no_installation",
     "repo_error", "issues_error", "no_release"}

\* Items of GET /repos/{owner}/{repo}/issues, each the set of its keys.
Issue == {"number", "title"}
PullRequest == {"number", "title", "pull_request"}
OpenItems == <<Issue, PullRequest, Issue>>

\* default_edition.date_rebuilt of Universe[i]; every second one is naive.
DateRebuilt(i) == Datetime(10 + i, IF i % 2 = 0 THEN "naive" ELSE "UTC")

\* pushed_at of the repository of Universe[i].
PushedAt(i) == Datetime(20 + i, "UTC")

\* The Lander metadata object of Universe[i], None when its fetch fails.
S3Object(i, profile) ==
    IF profile = "metadata_error" THEN None
    ELSE Some([canonical_url |-> <<"d","o","c","s","/">> \o Universe[i].slug,
               document_handle_prefix |-> Universe[i].series,
               identifier |-> Universe[i].series,
               title |-> "live",
               repository_url |->
                   RepoUrl(IF profile = "other_host" THEN OtherHost ELSE GitHubHost,
                           Universe[i].slug),
               authors |-> <<[role |-> "IPAC Lead", name |-> "lead"]>>])

\* The source host's answers for the repository of Universe[i]; None is a
\* request that raises.
GitHubRepo(i, profile) ==
    [install |-> profile # "no_installation",
     repo |-> IF profile = "repo_error" THEN None
              ELSE Some([owner |-> [login |-> OwnerLogin],
                         name |-> Universe[i].slug,
                         pushed_at |-> PushedAt(i)]),
     issues |-> IF profile = "issues_error" THEN None ELSE Some(OpenItems),
     release |-> IF profile = "no_release" THEN None
                 ELSE Some([tag_name |-> "v1",
                            published_at |-> Datetime(5, "UTC")])]

RECURSIVE Ascending(_)
Ascending(S) ==
    IF S = {} THEN <<>>
    ELSE LET m == CHOOSE m \in S : \A o \in S : m <= o
         IN  <<m>> \o Ascending(S \ {m})

IndexOf(slug) == CHOOSE i \in 1..Len(Universe) : Universe[i].slug = slug

\* The store as a seed load of the seven categorised projects leaves it.
SeedRedis ==
    [k \in {KeyPrefix[Universe[i].store] \o Universe[i].slug :
                i \in {j \in 1..Len(Universe) : Universe[j].store # "none"}} |->
        SeedDocument(Universe[CHOOSE i \in 1..Len(Universe) :
                        /\ Universe[i].store # "none"
                        /\ k = KeyPrefix[Universe[i].store] \o Universe[i].slug])]

Init ==
    /\ redis \in {EmptyRedis, SeedRedis}
    /\ written = [c \in Categories |-> EmptyRedis]
    /\ result = None
    /\ calls = 0
    /\ config \in [aws_access_key_id : BOOLEAN,
                   aws_access_key_secret : BOOLEAN,
                   github_factory : BOOLEAN]
    /\ \E S \in SUBSET (1..Len(Universe)) :
          /\ Cardinality(S) <= MaxProjects
          /\ \E profile \in [S -> Profiles] :
                /\ Cardinality({i \in S : profile[i] # "nominal"}) <= MaxFaults
                /\ ltd = [org |-> [slug |-> "spherex", s3_bucket |-> None],
                          projects |->
                              [n \in 1..Cardinality(S) |->
                                  [slug |-> Universe[Ascending(S)[n]].slug,
                                   default_edition |->
                                       [date_rebuilt |-> DateRebuilt(Ascending(S)[n])]]]]
                /\ s3 = [slug \in {Universe[i].slug : i \in S} |->
                            S3Object(IndexOf(slug), profile[IndexOf(slug)])]
                /\ github = [url \in {RepoUrl(GitHubHost, Universe[i].slug) :
                                        i \in {j \in S : profile[j] # "other_host"}} |->
                               LET i == CHOOSE i \in S :
                                           url = RepoUrl(GitHubHost, Universe[i].slug)
                               IN  GitHubRepo(i, profile[i])]
    /\ pc = "NotStarted"
    /\ org = None
    /\ projects = None
    /\ idx = 0
    /\ warnings = <<>>
    /\ error = None
    /\ runs = 0
    /\ ingested = {}
    /\ startStore = EmptyRedis
    /\ IdleOthers


(***************************************************************************)
(* ProjectService (services/projectservice.py)                             *)
(* A call that can raise yields [exc, val]: exc is None and val the        *)
(* returned value, or exc names the exception.                             *)
(***************************************************************************)
Return(v) == [exc |-> None, val |-> v]
Raise(e) == [exc |-> Some(e), val |-> None]

\* Bucket.get_lander_metadata: the parsed metadata object of the project,
\* or MetadataError.
get_lander_metadata(slug) ==
    IF s3[slug] = None THEN Raise("MetadataError") ELSE Return(s3[slug][1])

\* ProjectService._parse_github_repo_url
_parse_github_repo_url(repo_url) ==
    LET parts == SubSeq(split(Slice(repo_url, 19), "/"), 1, 2)
        owner == parts[1]
        repo == parts[2]
    IN  <<owner,
          IF endswith(repo, <<".","g","i","t">>)
          THEN SubSeq(repo, 1, Len(repo) - 4)
          ELSE IF endswith(repo, <<".","g","i","t","/">>)
               THEN SubSeq(repo, 1, Len(repo) - 5)
               ELSE repo>>

\* GitHubAppClientFactory.create_installation_client_for_repo, as the source
\* host answers the request made for this repository: a client, or an error.
create_installation_client_for_repo(repo_url, owner, repo) ==
    IF github[repo_url].install THEN Return(repo_url) ELSE Raise("GitHubError")

\* The try/except around the factory call in _create_github_repo_client.
InstallationClient(repo_url, made) ==
    IF made.exc = None
    THEN [client |-> Some(made.val), warns |-> <<>>]
    ELSE [client |-> None,
          warns |-> <<[event |-> "Failed to create GitHub client for repo",
                       subject |-> repo_url]>>]

\* ProjectService._create_github_repo_client: [client, warns].
\* repository_url is a str for every caller, so the None branch is left out.
_create_github_repo_client(repo_url) ==
    IF ~config.github_factory THEN [client |-> None, warns |-> <<>>]
    ELSE IF ~startswith(repo_url, GitHubHost) THEN [client |-> None, warns |-> <<>>]
    ELSE InstallationClient(repo_url,
             create_installation_client_for_repo(repo_url,
                 _parse_github_repo_url(repo_url)[1],
                 _parse_github_repo_url(repo_url)[2]))

\* ProjectService._get_github_repository
_get_github_repository(repo_url, github_client) ==
    LET parsed == _parse_github_repo_url(repo_url)
    IN  IF github[github_client].repo = None THEN Raise("GitHubError")
        ELSE Return(github[github_client].repo[1])

\* The loop over the open items: how many take the pull_request branch, how
\* many the other.
CountPullRequests(items) ==
    Cardinality({i \in 1..Len(items) : "pull_request" \in items[i]})

CountIssues(items) ==
    Cardinality({i \in 1..Len(items) : "pull_request" \notin items[i]})

\* ProjectService._get_github_issue_count
_get_github_issue_count(client, repo) ==
    IF github[client].issues = None THEN Raise("GitHubError")
    ELSE LET pr_count == CountPullRequests(github[client].issues[1])
             issue_count == CountIssues(github[client].issues[1])
         IN  Return(GitHubIssueCount(0, 0,
                 GitHubHost \o repo.owner.login \o <<"/">> \o repo.name
                     \o <<"/","i","s","s","u","e","s">>,
                 GitHubHost \o repo.owner.login \o <<"/">> \o repo.name
                     \o <<"/","p","u","l","l","s">>))

\* ProjectService._get_github_release
_get_github_release(client, repo) ==
    IF github[client].release = None THEN Raise("GitHubError")
    ELSE LET release_model == github[client].release[1]
         IN  Return(GitHubRelease(release_model.tag_name, release_model.published_at))

\* Variant: both URLs point at the issue tracker.
DefaultGitHubIssueCountSameUrl(repository_url) ==
    GitHubIssueCount(0, 0,
        repository_url \o <<"/","i","s","s","u","e","s">>,
        repository_url \o <<"/","i","s","s","u","e","s">>)

\* The defaults of _get_common_github_metadata.
DefaultGitHubIssueCount(repository_url) ==
    GitHubIssueCount(0, 0,
        repository_url \o <<"/","i","s","s","u","e","s">>,
        repository_url \o <<"/","p","u","l","l","s">>)

\* _get_common_github_metadata once the repository descriptor is there: the
\* issue count is requested, then the latest release.
FetchedMetadata(made, repo_data, github_issues, github_release) ==
    IF github_issues.exc # None
    THEN [exc |-> github_issues.exc, warns |-> made.warns, val |-> None]
    ELSE IF github_release.exc # None
    THEN [exc |-> github_release.exc, warns |-> made.warns, val |-> None]
    ELSE [exc |-> None, warns |-> made.warns,
          val |-> [github_issues |-> github_issues.val,
                   github_release |-> Some(github_release.val),
                   commit_date |-> repo_data.pushed_at]]

\* _get_common_github_metadata with a client: the repository is requested.
ClientMetadata(made, repo_data) ==
    IF repo_data.exc # None
    THEN [exc |-> repo_data.exc, warns |-> made.warns, val |-> None]
    ELSE FetchedMetadata(made, repo_data.val,
                         _get_github_issue_count(made.client[1], repo_data.val),
                         _get_github_release(made.client[1], repo_data.val))

\* _get_common_github_metadata after _create_github_repo_client returned.
CommonMetadata(repository_url, default_updated_datetime, made) ==
    IF made.client = None
    THEN [exc |-> None, warns |-> made.warns,
          val |-> [github_issues |-> DefaultGitHubIssueCount(repository_url),
                   github_release |-> None,
                   commit_date |-> default_updated_datetime]]
    ELSE ClientMetadata(made, _get_github_repository(repository_url, made.client[1]))

\* ProjectService._get_common_github_metadata: [exc, val, warns] with val the
\* tuple (github_issues, github_release, commit_date).
_get_common_github_metadata(repository_url, default_updated_datetime) ==
    CommonMetadata(repository_url, default_updated_datetime,
                   _create_github_repo_client(repository_url))

\* ProjectService._get_ssdc_lead: the first author with the role, else "".
RECURSIVE _get_ssdc_lead(_)
_get_ssdc_lead(authors) ==
    IF authors = <<>> THEN ""
    ELSE IF Head(authors).role = "IPAC Lead" THEN Head(authors).name
    ELSE _get_ssdc_lead(Tail(authors))

\* The document an _ingest_ssdc_* method builds and upserts. from_github
\* tells whether latest_commit_datetime is the date the source-host fetch
\* returned or project.default_edition.date_rebuilt.
BuiltDocument(project, o, c, from_github, lander_metadata, gh) ==
    IF gh.exc # None
    THEN [exc |-> gh.exc, warns |-> gh.warns, upsert |-> None]
    ELSE [exc |-> None, warns |-> gh.warns,
          upsert |-> Some(
            [category |-> c,
             project |-> SpherexDocument(
                 lander_metadata.canonical_url,
                 lander_metadata.document_handle_prefix,
                 lander_metadata.identifier,
                 lander_metadata.title,
                 project.slug,
                 o.slug,
                 lander_metadata.repository_url,
                 gh.val.github_issues,
                 gh.val.github_release,
                 IF from_github THEN gh.val.commit_date
                 ELSE project.default_edition.date_rebuilt,
                 _get_ssdc_lead(lander_metadata.authors))])]

\* An _ingest_ssdc_* method after the metadata fetch.
WithMetadata(project, o, c, from_github, lander_metadata) ==
    IF lander_metadata.exc # None
    THEN [exc |-> lander_metadata.exc, warns |-> <<>>, upsert |-> None]
    ELSE BuiltDocument(project, o, c, from_github, lander_metadata.val,
             _get_common_github_metadata(lander_metadata.val.repository_url,
                                         project.default_edition.date_rebuilt))

\* The body the seven _ingest_ssdc_* methods share: fetch the metadata
\* object, fetch the source-host metadata, build the document of category c.
\* The outcome is [exc, warns, upsert]: upsert is the store call made, if any.
IngestDocument(project, o, c, from_github) ==
    WithMetadata(project, o, c, from_github, get_lander_metadata(project.slug))

_ingest_ssdc_ms(project, o) == IngestDocument(project, o, "ssdc_ms", TRUE)
\* Variant: the Project-Management document goes to the Module-Spec store.
_ingest_ssdc_pmIntoMs(project, o) == IngestDocument(project, o, "ssdc_ms", TRUE)
_ingest_ssdc_pm(project, o) == IngestDocument(project, o, "ssdc_pm", TRUE)
_ingest_ssdc_if(project, o) == IngestDocument(project, o, "ssdc_if", FALSE)
_ingest_ssdc_dp(project, o) == IngestDocument(project, o, "ssdc_dp", TRUE)
_ingest_ssdc_tr(project, o) == IngestDocument(project, o, "ssdc_tr", TRUE)
_ingest_ssdc_tn(project, o) == IngestDocument(project, o, "ssdc_tn", TRUE)
_ingest_ssdc_op(project, o) == IngestDocument(project, o, "ssdc_op", FALSE)

\* The if/elif chain of _ingest_project.
\* Variant: a slug with no known prefix is ingested as an Operations Note.
DispatchCatchAll(project, o) ==
    IF startswith(project.slug, <<"s","s","d","c","-","m","s">>)
    THEN _ingest_ssdc_ms(project, o)
    ELSE IF startswith(project.slug, <<"s","s","d","c","-","p","m">>)
    THEN _ingest_ssdc_pm(project, o)
    ELSE IF startswith(project.slug, <<"s","s","d","c","-","i","f">>)
    THEN _ingest_ssdc_if(project, o)
    ELSE IF startswith(project.slug, <<"s","s","d","c","-","d","p">>)
    THEN _ingest_ssdc_dp(project, o)
    ELSE IF startswith(project.slug, <<"s","s","d","c","-","t","r">>)
    THEN _ingest_ssdc_tr(project, o)
    ELSE IF startswith(project.slug, <<"s","s","d","c","-","t","n">>)
    THEN _ingest_ssdc_tn(project, o)
    ELSE IF startswith(project.slug, <<"s","s","d","c","-","o","p">>)
    THEN _ingest_ssdc_op(project, o)
    ELSE _ingest_ssdc_op(project, o)

\* The if/elif chain of _ingest_project.
Dispatch(project, o) ==
    IF startswith(project.slug, <<"s","s","d","c","-","m","s">>)
    THEN _ingest_ssdc_ms(project, o)
    ELSE IF startswith(project.slug, <<"s","s","d","c","-","p","m">>)
    THEN _ingest_ssdc_pm(project, o)
    ELSE IF startswith(project.slug, <<"s","s","d","c","-","i","f">>)
    THEN _ingest_ssdc_if(project, o)
    ELSE IF startswith(project.slug, <<"s","s","d","c","-","d","p">>)
    THEN _ingest_ssdc_dp(project, o)
    ELSE IF startswith(project.slug, <<"s","s","d","c","-","t","r">>)
    THEN _ingest_ssdc_tr(project, o)
    ELSE IF startswith(project.slug, <<"s","s","d","c","-","t","n">>)
    THEN _ingest_ssdc_tn(project, o)
    ELSE IF startswith(project.slug, <<"s","s","d","c","-","o","p">>)
    THEN _ingest_ssdc_op(project, o)
    ELSE [exc |-> None, warns |-> <<>>, upsert |-> None]

\* Variant: every exception is caught and logged.
CaughtAnyError(project, out) ==
    IF out.exc # None
    THEN [exc |-> None,
          warns |-> out.warns \o
              <<[event |-> "Could not ingest metadata", subject |-> project.slug]>>,
          upsert |-> None]
    ELSE out

\* The except clause of _ingest_project.
Caught(project, out) ==
    IF out.exc = Some("MetadataError")
    THEN [exc |-> None,
          warns |-> out.warns \o
              <<[event |-> "Could not ingest metadata", subject |-> project.slug]>>,
          upsert |-> None]
    ELSE out

\* Variant: MetadataError is not caught.
_ingest_projectUncaught(project, o) == Dispatch(project, o)

\* Variant: after a MetadataError a document without metadata is stored.
_ingest_projectPlaceholder(project, o) ==
    LET out == Dispatch(project, o)
    IN  IF out.exc = Some("MetadataError")
        THEN [exc |-> None,
              warns |-> out.warns \o
                  <<[event |-> "Could not ingest metadata", subject |-> project.slug]>>,
              upsert |-> Some(
                  [category |-> Universe[IndexOf(project.slug)].store,
                   project |-> SpherexDocument(<<>>, "", "", "", project.slug, o.slug,
                                   <<>>, DefaultGitHubIssueCount(<<>>), None,
                                   project.default_edition.date_rebuilt, "")])]
        ELSE out

\* ProjectService._ingest_project: MetadataError is logged, anything else
\* propagates.
_ingest_project(project, o) == Caught(project, Dispatch(project, o))

(***************************************************************************)
(* The refresh run: refresh_projects -> ProjectService.bootstrap_from_api  *)
(***************************************************************************)
\* Variant: the run is refused only when both halves are missing.
KeyPairMissingBoth == ~config.aws_access_key_id /\ ~config.aws_access_key_secret

\* The credential test of bootstrap_from_api.
KeyPairMissing == ~config.aws_access_key_id \/ ~config.aws_access_key_secret

\* The cron job starts a run: the organization is fetched, then the key pair
\* is required.
StartRun ==
    /\ pc \in {"NotStarted", "Done", "Failed"}
    /\ runs < MaxRuns
    /\ runs' = runs + 1
    /\ org' = Some(ltd.org)
    /\ projects' = None
    /\ idx' = 0
    /\ warnings' = <<>>
    /\ ingested' = {}
    /\ startStore' = redis
    /\ IF KeyPairMissing
       THEN pc' = "Failed" /\ error' = Some("RuntimeError")
       ELSE pc' = "ListingProjects" /\ error' = None
    /\ UNCHANGED <<storeVars, upstreamVars, otherVars>>

\* ltd_client.get_projects()
ListProjects ==
    /\ pc = "ListingProjects"
    /\ projects' = Some(ltd.projects)
    /\ idx' = 1
    /\ pc' = "PerProjectIngest"
    /\ UNCHANGED <<storeVars, upstreamVars, org, warnings, error, runs,
                   ingested, startStore, otherVars>>

\* Variant: the loop moves on by two projects.
IngestedSkipping(slug, out) ==
    /\ warnings' = warnings \o out.warns
    /\ IF out.upsert # None
       THEN /\ redis' = upsert(redis, KeyPrefix[out.upsert[1].category],
                               out.upsert[1].project)
            /\ ingested' = ingested \cup {slug}
       ELSE UNCHANGED <<redis, ingested>>
    /\ IF out.exc # None
       THEN pc' = "Failed" /\ error' = out.exc /\ idx' = idx
       ELSE pc' = pc /\ error' = error /\ idx' = idx + 2

\* The effect of one _ingest_project call on the store, the log and the run.
Ingested(slug, out) ==
    /\ warnings' = warnings \o out.warns
    /\ IF out.upsert # None
       THEN /\ redis' = upsert(redis, KeyPrefix[out.upsert[1].category],
                               out.upsert[1].project)
            /\ ingested' = ingested \cup {slug}
       ELSE UNCHANGED <<redis, ingested>>
    /\ IF out.exc # None
       THEN pc' = "Failed" /\ error' = out.exc /\ idx' = idx
       ELSE pc' = pc /\ error' = error /\ idx' = idx + 1

\* One iteration of the loop: _ingest_project for the next project.
IngestProject ==
    /\ pc = "PerProjectIngest"
    /\ idx <= Len(projects[1])
    /\ Ingested(projects[1][idx].slug, _ingest_project(projects[1][idx], org[1]))
    /\ UNCHANGED <<written, result, calls, upstreamVars, org, projects, runs,
                   startStore, otherVars>>

\* The loop is exhausted and bootstrap_from_api returns.
FinishRun ==
    /\ pc = "PerProjectIngest"
    /\ idx > Len(projects[1])
    /\ pc' = "Done"
    /\ UNCHANGED <<storeVars, upstreamVars, org, projects, idx, warnings,
                   error, runs, ingested, startStore, otherVars>>

Next == StartRun \/ ListProjects \/ IngestProject \/ FinishRun

Spec == Init /\ [][Next]_vars

(***************************************************************************)
(* Object-store metadata client: Bucket (repositories/s3metadata.py)       *)
(***************************************************************************)
\* Exceptions that derive from httpx.HTTPError.
HTTPError == {"ConnectError", "ReadTimeout", "HTTPStatusError"}

\* A response body that is not JSON, and one that is the JSON object obj.
NotJson == [json |-> None]
Json(obj) == [json |-> Some(obj)]

\* Fields the metadata model requires of the object.
RequiredFields == {"identifier", "title", "canonical_url", "repository_url"}

MetadataObject(fields) == [f \in fields |-> f]

Bodies ==
    {NotJson, Json(MetadataObject(RequiredFields)),
     Json(MetadataObject(RequiredFields \ {"title"}))}

Statuses == {200, 404, 500}

\* What a GET of an object answers: the request fails in transport, or a
\* response with a status and a body arrives.
Responses ==
    {[error |-> Some(e), status |-> 0, body |-> NotJson] :
        e \in {"ConnectError", "ReadTimeout"}}
    \cup {[error |-> None, status |-> st, body |-> b] :
            st \in Statuses, b \in Bodies}

Handles ==
    {<<"S","S","D","C","-","M","S","-","1">>,
     <<"s","s","d","c","-","m","s","-","2">>}

\* key = f"{handle.lower()}/v/__main/metadata.json"
MetadataKey(handle) ==
    lower(handle) \o
    <<"/","v","/","_","_","m","a","i","n","/","m","e","t","a","d","a","t","a",
      ".","j","s","o","n">>

\* MetadataError(reason, handle, exc)
MetadataError(reason, handle, exc) ==
    [type |-> "MetadataError", reason |-> reason, handle |-> handle,
     exc |-> exc]

\* Bucket.get_object
get_object(key) ==
    IF bucket[key].error # None
    THEN Raise([type |-> bucket[key].error[1]])
    ELSE Return(bucket[key])

\* Response.raise_for_status
raise_for_status(response) ==
    IF response.status >= 200 /\ response.status < 300
    THEN Return(response)
    ELSE Raise([type |-> "HTTPStatusError"])

\* The try block of _get_lander_metadata.
TryGetObject(key) ==
    IF get_object(key).exc # None THEN get_object(key)
    ELSE raise_for_status(get_object(key).val)

\* Bucket._get_lander_metadata
_get_lander_metadata(handle) ==
    IF TryGetObject(MetadataKey(handle)).exc = None
    THEN TryGetObject(MetadataKey(handle))
    ELSE IF TryGetObject(MetadataKey(handle)).exc[1].type \in HTTPError
    THEN Raise(MetadataError("Could not get metadata object", handle,
                             TryGetObject(MetadataKey(handle)).exc[1].type))
    ELSE TryGetObject(MetadataKey(handle))

\* Response.json
json(response) ==
    IF response.body.json = None THEN Raise([type |-> "JSONDecodeError"])
    ELSE Return(response.body.json[1])

\* SpherexPipelineModuleMetadata.parse_obj
parse_obj(obj) ==
    IF RequiredFields \subseteq DOMAIN obj THEN Return(obj)
    ELSE Raise([type |-> "ValidationError"])

\* The try block of get_ssdc_ms_metadata.
TryParse(response) ==
    IF json(response).exc # None THEN json(response)
    ELSE parse_obj(json(response).val)

\* get_ssdc_ms_metadata once the response is there: only
\* pydantic.ValidationError is caught.
ParsedMetadata(handle, parsed) ==
    IF parsed.exc = None THEN parsed
    ELSE IF parsed.exc[1].type = "ValidationError"
    THEN Raise(MetadataError("Could not parse metadata object", handle,
                             parsed.exc[1].type))
    ELSE parsed

\* Bucket.get_ssdc_ms_metadata
get_ssdc_ms_metadata(handle) ==
    IF _get_lander_metadata(handle).exc # None
    THEN _get_lander_metadata(handle)
    ELSE ParsedMetadata(handle, TryParse(_get_lander_metadata(handle).val))

InitBucket ==
    /\ bucket \in [{MetadataKey(h) : h \in Handles} -> Responses]
    /\ fetched = None
    /\ IdleStore
    /\ IdleRun
    /\ IdleDataset
    /\ IdleDomain
    /\ IdleToken
    /\ IdleConcurrent
    /\ IdleSeed

\* A caller asks for the metadata of one document.
GetSsdcMsMetadata(handle) ==
    /\ fetched' = Some([handle |-> handle, out |-> get_ssdc_ms_metadata(handle)])
    /\ UNCHANGED <<bucket, storeVars, upstreamVars, runVars, tokenVars,
                   concurrentVars, seedVars, datasetVars,
                   domainVars>>

NextBucket == \E handle \in Handles : GetSsdcMsMetadata(handle)

SpecBucket == InitBucket /\ [][NextBucket]_vars


(***************************************************************************)
(* Documentation-host client: LtdApi (repositories/ltdapi.py)              *)
(* Every refresh run builds its own LtdApi and calls get_organization,     *)
(* then get_projects; both call get_auth_token, which is wrapped by        *)
(* asyncache.cached(TTLCache(1024, 600)).  The cache is one object of the  *)
(* process; its capacity of 1024 entries is never reached here.            *)
(***************************************************************************)
\* ttl of the TTLCache, in seconds.
TokenTtl == 600

\* Clock advances between steps.
Ticks == {300, 600}

\* cachetools.keys.hashkey(self, username, password): the LtdApi instance of
\* the run is part of the key; the credential pair comes from config and is
\* the same for every run.
hashkey(run) == <<run, "ltd_api_username", "ltd_api_password">>

\* TTLCache.__getitem__ finds the key: an expired entry counts as missing.
Hit(k) == k \in DOMAIN cache /\ now < cache[k].expires

\* TTLCache.__setitem__
setitem(k, value) ==
    [j \in DOMAIN cache \cup {k} |->
        IF j = k THEN [value |-> value, expires |-> now + TokenTtl] ELSE cache[j]]

\* The call of a run that is asking for the token, and the one being served.
AfterToken(position) ==
    IF position \in {"OrgToken", "OrgExchange"} THEN "OrgRequest"
    ELSE "ProjectsRequest"

InitToken ==
    /\ now = 0
    /\ cache = EmptyRedis
    /\ callers = [run \in 1..MaxCallers |-> [pc |-> "NotStarted", token |-> None]]
    /\ inflight = {}
    /\ exchanges = <<>>
    /\ IdleStore
    /\ IdleRun
    /\ IdleDataset
    /\ IdleDomain
    /\ IdleBucket
    /\ IdleConcurrent
    /\ IdleSeed

\* bootstrap_from_api builds its LtdApi and calls get_organization.
StartClient(run) ==
    /\ callers[run].pc = "NotStarted"
    /\ callers' = [callers EXCEPT ![run].pc = "OrgToken"]
    /\ UNCHANGED <<now, cache, inflight, exchanges, storeVars, upstreamVars,
                   runVars, bucketVars, concurrentVars, seedVars, datasetVars,
                   domainVars>>

\* The wrapper of get_auth_token looks the key up: a hit returns the cached
\* token, a miss calls the wrapped function, which sends GET /token.
LookupToken(run) ==
    /\ callers[run].pc \in {"OrgToken", "ProjectsToken"}
    /\ IF Hit(hashkey(run))
       THEN /\ callers' = [callers EXCEPT
                             ![run] = [pc |-> AfterToken(callers[run].pc),
                                       token |-> Some(cache[hashkey(run)].value)]]
            /\ UNCHANGED <<inflight, exchanges>>
       ELSE /\ callers' = [callers EXCEPT
                             ![run].pc = IF callers[run].pc = "OrgToken"
                                         THEN "OrgExchange" ELSE "ProjectsExchange"]
            /\ inflight' = inflight \cup {run}
            /\ exchanges' = Append(exchanges,
                                [caller |-> run, sent |-> now, done |-> None])
    /\ UNCHANGED <<now, cache, storeVars, upstreamVars, runVars, bucketVars,
                   concurrentVars, seedVars, datasetVars,
                   domainVars>>

\* The response of GET /token arrives: raise_for_status passes and the token
\* is stored under the key, or it raises and nothing is stored.
TokenResponse(run, ok) ==
    /\ callers[run].pc \in {"OrgExchange", "ProjectsExchange"}
    /\ inflight' = inflight \ {run}
    /\ IF ok
       THEN /\ cache' = setitem(hashkey(run), run)
            /\ callers' = [callers EXCEPT
                             ![run] = [pc |-> AfterToken(callers[run].pc),
                                       token |-> Some(run)]]
            /\ exchanges' =
                 [n \in 1..Len(exchanges) |->
                     IF exchanges[n].caller = run /\ exchanges[n].done = None
                     THEN [exchanges[n] EXCEPT !.done = Some(now)]
                     ELSE exchanges[n]]
       ELSE /\ callers' = [callers EXCEPT ![run].pc = "Failed"]
            /\ UNCHANGED <<cache, exchanges>>
    /\ UNCHANGED <<now, storeVars, upstreamVars, runVars, bucketVars,
                   concurrentVars, seedVars, datasetVars,
                   domainVars>>

\* The authenticated GET of get_organization or get_projects is answered.
ApiResponse(run) ==
    /\ callers[run].pc \in {"OrgRequest", "ProjectsRequest"}
    /\ callers' = [callers EXCEPT
                     ![run].pc = IF callers[run].pc = "OrgRequest"
                                 THEN "ProjectsToken" ELSE "Done"]
    /\ UNCHANGED <<now, cache, inflight, exchanges, storeVars, upstreamVars,
                   runVars, bucketVars, concurrentVars, seedVars, datasetVars,
                   domainVars>>

\* Time passes.
Tick(d) ==
    /\ now + d <= MaxTime
    /\ now' = now + d
    /\ UNCHANGED <<cache, callers, inflight, exchanges, storeVars,
                   upstreamVars, runVars, bucketVars,
                   concurrentVars, seedVars, datasetVars,
                   domainVars>>

NextToken ==
    \/ \E run \in 1..MaxCallers : StartClient(run)
    \/ \E run \in 1..MaxCallers : LookupToken(run)
    \/ \E run \in 1..MaxCallers, ok \in BOOLEAN : TokenResponse(run, ok)
    \/ \E run \in 1..MaxCallers : ApiResponse(run)
    \/ \E d \in Ticks : Tick(d)

SpecToken == InitToken /\ [][NextToken]_vars


(***************************************************************************)
(* Concurrent callers of one category store: two writers (a refresh run    *)
(* and a seed load, each a series of upserts) and a reader in get_all.     *)
(* upsert awaits one store call, a single SET; get_all awaits the scan and *)
(* then one GET per key, so writers' steps fall between the reader's.      *)
(***************************************************************************)
Writers == {"refresh", "seed"}

ConcurrentCategories == {"ssdc_ms", "ssdc_pm"}

ConcurrentIds == {<<"s","s","d","c","-","1">>, <<"s","s","d","c","-","2">>}

\* The document a writer upserts for a project: the writers differ in more
\* than one field.
WriterDocument(writer, id) ==
    IF writer = "seed"
    THEN [StoreDocument(id, "seed") EXCEPT !.handle = "SEED", !.ssdc_author_name = "seed author"]
    ELSE StoreDocument(id, "live")

InitConcurrent ==
    /\ redis = EmptyRedis
    /\ written = [c \in Categories |-> EmptyRedis]
    /\ result = None
    /\ calls = 0
    /\ reader = Some([pc |-> "idle", category |-> "ssdc_ms", keys |-> <<>>,
                      projects |-> <<>>, reads |-> 0, during |-> 0])
    /\ writes = [w \in Writers |-> 0]
    /\ last = None
    /\ committed = {}
    /\ IdleRun
    /\ IdleDataset
    /\ IdleDomain
    /\ IdleBucket
    /\ IdleToken
    /\ IdleSeed

\* A writer's upsert completes.
WriterUpsert(writer, c, id) ==
    /\ writes[writer] < MaxWrites
    /\ writes' = [writes EXCEPT ![writer] = writes[writer] + 1]
    /\ redis' = upsert(redis, KeyPrefix[c], WriterDocument(writer, id))
    /\ written' = [written EXCEPT ![c] =
                     [k \in DOMAIN written[c] \cup {id} |->
                        IF k = id THEN WriterDocument(writer, id) ELSE written[c][k]]]
    /\ last' = Some([writer |-> writer, category |-> c,
                     project |-> WriterDocument(writer, id)])
    /\ committed' = committed \cup
                      {[key |-> KeyPrefix[c] \o id,
                        project |-> WriterDocument(writer, id)]}
    /\ reader' = IF reader[1].pc = "reading" /\ reader[1].category = c
                 THEN Some([reader[1] EXCEPT !.during = reader[1].during + 1])
                 ELSE reader
    /\ UNCHANGED <<result, calls, upstreamVars, runVars, bucketVars, tokenVars,
                   seedVars, datasetVars,
                   domainVars>>

\* get_all: keys = [m async for m in self.scan("*")]; keys.sort()
ReaderScan(c) ==
    /\ reader[1].pc = "idle"
    /\ reader[1].reads < MaxReads
    /\ reader' = Some([pc |-> "reading", category |-> c,
                       keys |-> SortKeys(scan(redis, KeyPrefix[c])),
                       projects |-> <<>>, reads |-> reader[1].reads + 1,
                       during |-> 0])
    /\ result' = None
    /\ UNCHANGED <<redis, written, calls, writes, last, committed, upstreamVars,
                   runVars, bucketVars, tokenVars,
                   seedVars, datasetVars,
                   domainVars>>

\* get_all: one turn of the loop, project = await self.get(k).
ReaderGet ==
    /\ reader[1].pc = "reading"
    /\ reader[1].keys # <<>>
    /\ reader' = Some([reader[1] EXCEPT
                          !.keys = Tail(reader[1].keys),
                          !.projects =
                              IF get(redis, KeyPrefix[reader[1].category],
                                     Head(reader[1].keys)) # None
                              THEN Append(reader[1].projects,
                                          get(redis, KeyPrefix[reader[1].category],
                                              Head(reader[1].keys))[1])
                              ELSE reader[1].projects])
    /\ UNCHANGED <<redis, written, result, calls, writes, last, committed,
                   upstreamVars, runVars, bucketVars, tokenVars,
                   seedVars, datasetVars,
                   domainVars>>

\* get_all returns the list.
ReaderReturn ==
    /\ reader[1].pc = "reading"
    /\ reader[1].keys = <<>>
    /\ result' = Some([category |-> reader[1].category,
                       projects |-> reader[1].projects])
    /\ reader' = Some([reader[1] EXCEPT !.pc = "idle"])
    /\ UNCHANGED <<redis, written, calls, writes, last, committed, upstreamVars,
                   runVars, bucketVars, tokenVars,
                   seedVars, datasetVars,
                   domainVars>>

NextConcurrent ==
    \/ \E writer \in Writers, c \in ConcurrentCategories, id \in ConcurrentIds :
          WriterUpsert(writer, c, id)
    \/ \E c \in ConcurrentCategories : ReaderScan(c)
    \/ ReaderGet
    \/ ReaderReturn

SpecConcurrent == InitConcurrent /\ [][NextConcurrent]_vars


(***************************************************************************)
(* Seed loader: MockDataModel, MockDataRepository (repositories/mockdata.py)*)
(* and ProjectService.bootstrap_mock_repo                                  *)
(***************************************************************************)
\* The lists of the seed file in the order bootstrap_project_repository
\* walks them.
SeedOrder ==
    <<"ssdc_ms", "ssdc_pm", "ssdc_if", "ssdc_dp", "ssdc_tr", "ssdc_tn", "ssdc_op">>

\* The series literal of each domain_model property.
SeedSeries ==
    [ssdc_ms |-> "SSDC-MS", ssdc_pm |-> "SSDC-PM", ssdc_if |-> "SSDC-IF",
     ssdc_dp |-> "SSDC-IF", ssdc_tr |-> "SSDC-TR", ssdc_tn |-> "SSDC-TN",
     ssdc_op |-> "SSDC-OP"]

\* Handles of the entries a file can hold, two per category.
SeedHandles ==
    [ssdc_ms |-> <<"SSDC-MS-001", "SSDC-MS-002">>,
     ssdc_pm |-> <<"SSDC-PM-001", "SSDC-PM-002">>,
     ssdc_if |-> <<"SSDC-IF-001", "SSDC-IF-002">>,
     ssdc_dp |-> <<"SSDC-DP-001", "SSDC-DP-002">>,
     ssdc_tr |-> <<"SSDC-TR-001", "SSDC-TR-002">>,
     ssdc_tn |-> <<"SSDC-TN-001", "SSDC-TN-002">>,
     ssdc_op |-> <<"SSDC-OP-001", "SSDC-OP-002">>]

\* project_id of the n-th entry of a category: ssdc-ms-1 and ssdc-ms-10.
SeedId(c, n) ==
    Universe[CHOOSE i \in 1..Len(Universe) : Universe[i].store = c].slug
    \o (IF n = 1 THEN <<>> ELSE <<"0">>)

\* Fields BaseSpherexDocumentModel requires of an entry.
RequiredSeedFields ==
    {"title", "project_id", "github_url", "issues", "prs", "commit_date",
     "handle", "ssdc_author"}

\* A well-formed entry of the file; the second of a category has a
\* github_url with a trailing slash, a naive commit date and no tag.
SeedEntry(c, n) ==
    [title |-> "seed",
     project_id |-> SeedId(c, n),
     github_url |-> RepoUrl(GitHubHost, SeedId(c, n)) \o
                        (IF n = 1 THEN <<>> ELSE <<"/">>),
     issues |-> n + 2,
     prs |-> n,
     commit_date |-> Datetime(n, IF n = 1 THEN "UTC" ELSE "naive"),
     tag |-> IF n = 1 THEN Some("v1") ELSE None,
     tag_date |-> Some(Datetime(n, "UTC")),
     handle |-> SeedHandles[c][n],
     ssdc_author |-> "author"]

\* The entry as written in the file: complete, or with its handle left out.
RawEntry(c, n, complete) ==
    IF complete THEN SeedEntry(c, n)
    ELSE [f \in DOMAIN SeedEntry(c, n) \ {"handle"} |-> SeedEntry(c, n)[f]]

\* The entries of one category of a file written as a series of choices.
RECURSIVE ListOf(_, _)
ListOf(choices, c) ==
    IF choices = <<>> THEN <<>>
    ELSE IF Head(choices).category = c
    THEN <<RawEntry(c, Head(choices).n, Head(choices).complete)>>
          \o ListOf(Tail(choices), c)
    ELSE ListOf(Tail(choices), c)

\* s.rstrip(ch)
RECURSIVE rstrip(_, _)
rstrip(s, ch) ==
    IF s # <<>> /\ s[Len(s)] = ch THEN rstrip(SubSeq(s, 1, Len(s) - 1), ch)
    ELSE s

\* BaseProjectModel.url
SeedUrl(entry) ==
    <<"h","t","t","p","s",":","/","/","s","p","h","e","r","e","x","-","d","o",
      "c","s",".","i","p","a","c",".","c","a","l","t","e","c","h",".","e","d",
      "u","/">> \o entry.project_id

\* BaseGitHubProjectModel.github_issues
SeedGitHubIssues(entry) ==
    GitHubIssueCount(entry.issues, entry.prs,
        rstrip(entry.github_url, "/") \o <<"/","i","s","s","u","e","s">>,
        rstrip(entry.github_url, "/") \o <<"/","p","u","l","l","s">>)

\* BaseGitHubProjectModel.github_release
SeedGitHubRelease(entry) ==
    IF entry.tag # None /\ entry.tag_date # None
    THEN Some(GitHubRelease(entry.tag[1], entry.tag_date[1]))
    ELSE None

\* Variant: the handle of the document is derived from the category.
domain_modelSeriesHandle(c, entry) ==
    SpherexDocument(SeedUrl(entry), SeedSeries[c], SeedSeries[c], entry.title,
                    entry.project_id, "spherex", entry.github_url,
                    SeedGitHubIssues(entry), SeedGitHubRelease(entry),
                    entry.commit_date, entry.ssdc_author)

\* The domain_model property of the seven Ssdc*Model classes.
domain_model(c, entry) ==
    SpherexDocument(SeedUrl(entry), SeedSeries[c], entry.handle, entry.title,
                    entry.project_id, "spherex", entry.github_url,
                    SeedGitHubIssues(entry), SeedGitHubRelease(entry),
                    entry.commit_date, entry.ssdc_author)

\* Variant: entries that fail validation are left out of the model.
MockDataModelLenient(data) ==
    Return([c \in Categories |->
               SelectSeq(data[c], LAMBDA e : RequiredSeedFields \subseteq DOMAIN e)])

\* MockDataModel.parse_obj: every entry of every list is validated.
MockDataModel(data) ==
    IF \A c \in Categories : \A n \in 1..Len(data[c]) :
           RequiredSeedFields \subseteq DOMAIN data[c][n]
    THEN Return(data)
    ELSE Raise("ValidationError")

\* MockDataModel.from_yaml
from_yaml(file) ==
    IF file = None THEN Raise("YAMLError") ELSE MockDataModel(file[1])

\* The upserts bootstrap_project_repository makes, in order, for the lists
\* from position i of SeedOrder on.
RECURSIVE SeedUpserts(_, _)
SeedUpserts(data, i) ==
    IF i > Len(SeedOrder) THEN <<>>
    ELSE [n \in 1..Len(data[SeedOrder[i]]) |->
             [category |-> SeedOrder[i],
              project |-> domain_model(SeedOrder[i], data[SeedOrder[i]][n])]]
         \o SeedUpserts(data, i + 1)

InitSeed ==
    /\ redis \in {EmptyRedis, SeedRedis}
    /\ written = [c \in Categories |-> EmptyRedis]
    /\ result = None
    /\ calls = 0
    /\ \/ seedfile = None
       \/ \E len \in 0..MaxSeedEntries :
             \E choices \in [1..len -> [category : Categories, n : 1..2,
                                        complete : BOOLEAN]] :
                seedfile = Some([c \in Categories |-> ListOf(choices, c)])
    /\ mockdata = None
    /\ loader = Some([pc |-> "NotStarted", next |-> 1, error |-> None,
                      start |-> redis])
    /\ IdleRun
    /\ IdleDataset
    /\ IdleDomain
    /\ IdleBucket
    /\ IdleToken
    /\ IdleConcurrent

\* The seed load once from_yaml has returned or raised.
Loaded(parsed) ==
    IF parsed.exc # None
    THEN /\ loader' = Some([loader[1] EXCEPT !.pc = "Failed", !.error = parsed.exc])
         /\ mockdata' = None
    ELSE /\ loader' = Some([loader[1] EXCEPT !.pc = "Bootstrapping"])
         /\ mockdata' = Some(parsed.val)

\* bootstrap_mock_repo: MockDataRepository.load_builtin_data()
LoadBuiltinData ==
    /\ loader[1].pc = "NotStarted"
    /\ Loaded(from_yaml(seedfile))
    /\ UNCHANGED <<storeVars, seedfile, upstreamVars, runVars, bucketVars,
                   tokenVars, concurrentVars, datasetVars,
                   domainVars>>

\* bootstrap_project_repository: the next upsert of its seven loops.
SeedUpsert ==
    /\ loader[1].pc = "Bootstrapping"
    /\ loader[1].next <= Len(SeedUpserts(mockdata[1], 1))
    /\ redis' = upsert(redis,
                       KeyPrefix[SeedUpserts(mockdata[1], 1)[loader[1].next].category],
                       SeedUpserts(mockdata[1], 1)[loader[1].next].project)
    /\ written' =
         [written EXCEPT ![SeedUpserts(mockdata[1], 1)[loader[1].next].category] =
             [k \in DOMAIN @ \cup
                    {SeedUpserts(mockdata[1], 1)[loader[1].next].project.project_id} |->
                 IF k = SeedUpserts(mockdata[1], 1)[loader[1].next].project.project_id
                 THEN SeedUpserts(mockdata[1], 1)[loader[1].next].project
                 ELSE @[k]]]
    /\ loader' = Some([loader[1] EXCEPT !.next = loader[1].next + 1])
    /\ UNCHANGED <<result, calls, seedfile, mockdata, upstreamVars, runVars,
                   bucketVars, tokenVars, concurrentVars, datasetVars,
                   domainVars>>

\* bootstrap_project_repository returns.
SeedDone ==
    /\ loader[1].pc = "Bootstrapping"
    /\ loader[1].next > Len(SeedUpserts(mockdata[1], 1))
    /\ loader' = Some([loader[1] EXCEPT !.pc = "Done"])
    /\ UNCHANGED <<storeVars, seedfile, mockdata, upstreamVars, runVars,
                   bucketVars, tokenVars, concurrentVars, datasetVars,
                   domainVars>>

\* A reader lists one category once the load has ended.
SeedGetAll(c) ==
    /\ loader[1].pc \in {"Done", "Failed"}
    /\ result = None
    /\ result' = Some([category |-> c, projects |-> get_all(redis, KeyPrefix[c])])
    /\ UNCHANGED <<redis, written, calls, seedVars, upstreamVars, runVars,
                   bucketVars, tokenVars, concurrentVars, datasetVars,
                   domainVars>>

NextSeed ==
    \/ LoadBuiltinData
    \/ SeedUpsert
    \/ SeedDone
    \/ \E c \in Categories : SeedGetAll(c)

SpecSeed == InitSeed /\ [][NextSeed]_vars


(***************************************************************************)
(* The static document repository (repository.py): a dataset parsed once,  *)
(* listed by handle.                                                       *)
(***************************************************************************)
DatasetHandles ==
    [ssdc_ms |-> {<<"S","S","D","C","-","M","S","-","0","0","1">>,
                  <<"S","S","D","C","-","M","S","-","0","0","2">>,
                  <<"S","S","D","C","-","M","S","-","0","1","0">>},
     ssdc_pm |-> {<<"S","S","D","C","-","P","M","-","0","0","1">>},
     ssdc_tr |-> {<<"S","S","D","C","-","T","R","-","0","0","1">>}]

Document(handle, title, url) == [handle |-> handle, title |-> title, url |-> url]

Documents(c) ==
    {Document(h, t, <<"h","t","t","p","s",":","/","/">> \o h) :
        h \in DatasetHandles[c], t \in {"first title", "second title"}}

DatasetModel(ssdc_ms, ssdc_pm, ssdc_tr) ==
    [ssdc_ms |-> ssdc_ms, ssdc_pm |-> ssdc_pm, ssdc_tr |-> ssdc_tr]

\* Lists of at most n documents of a category.
ListsOf(c, n) == UNION {[1..k -> Documents(c)] : k \in 0..n}

\* The comparison sorted() makes between two keys: a goes before b.
HandleBefore(a, b, reverse) ==
    IF reverse THEN StrLess(b.handle, a.handle) ELSE StrLess(a.handle, b.handle)

\* sorted() is stable, also with reverse=True: d goes after every document
\* that it does not go before.
RECURSIVE InsertByHandle(_, _, _)
InsertByHandle(acc, d, reverse) ==
    IF acc = <<>> THEN <<d>>
    ELSE IF HandleBefore(d, Head(acc), reverse) THEN <<d>> \o acc
    ELSE <<Head(acc)>> \o InsertByHandle(Tail(acc), d, reverse)

RECURSIVE SortedAcc(_, _, _)
SortedAcc(docs, acc, reverse) ==
    IF docs = <<>> THEN acc
    ELSE SortedAcc(Tail(docs), InsertByHandle(acc, Head(docs), reverse), reverse)

\* sorted(docs, key=attrgetter("handle"), reverse=reverse)
sorted(docs, reverse) == SortedAcc(docs, <<>>, reverse)

\* Variant: the ascending argument is not read.
get_ms_by_handleAscendingOnly(data, ascending) == sorted(data.ssdc_ms, FALSE)

get_ms_by_handle(data, ascending) == sorted(data.ssdc_ms, ~ascending)

InitDataset ==
    /\ IdleStore
    /\ IdleRun
    /\ IdleBucket /\ IdleToken /\ IdleConcurrent /\ IdleSeed
    /\ IdleDomain
    /\ \E ms \in ListsOf("ssdc_ms", MaxDocuments),
          pm \in ListsOf("ssdc_pm", 1), tr \in ListsOf("ssdc_tr", 1) :
          dataset = Some(DatasetModel(ms, pm, tr))
    /\ listing = None

\* A caller lists the Module-Spec documents.
GetMsByHandle(ascending) ==
    /\ listing' = Some([ascending |-> ascending,
                        documents |-> get_ms_by_handle(dataset[1], ascending)])
    /\ UNCHANGED <<dataset, storeVars, upstreamVars, runVars, bucketVars,
                   tokenVars, concurrentVars, seedVars, domainVars>>

NextDataset == \E ascending \in BOOLEAN : GetMsByHandle(ascending)

SpecDataset == InitDataset /\ [][NextDataset]_vars


(***************************************************************************)
(* Construction of domain values (domain.py) and the Module-Spec fields    *)
(* _ingest_ssdc_ms derives from the project's metadata.                    *)
(***************************************************************************)
\* The datetimes given to the constructors: naive, UTC and another zone.
Datetimes ==
    {Datetime(wall, tz) : wall \in 0..MaxWall, tz \in {"naive", "UTC", "-08:00"}}

\* A metadata value with its Python type: an int or a str.
IntValue(n) == [type |-> "int", value |-> n]
StrValue(s) == [type |-> "str", value |-> s]

isinstance(v, type) == v.type = type

DigitChars == <<"0", "1", "2", "3", "4", "5", "6", "7", "8", "9">>

\* str(n) for n >= 0
RECURSIVE DecimalDigits(_)
DecimalDigits(n) ==
    IF n < 10 THEN <<DigitChars[n + 1]>>
    ELSE Append(DecimalDigits(n \div 10), DigitChars[(n % 10) + 1])

\* format(n, "0{width}d") for n >= 0
RECURSIVE ZeroPad(_, _)
ZeroPad(digits, width) ==
    IF Len(digits) >= width THEN digits ELSE ZeroPad(<<"0">> \o digits, width)

\* s.lstrip(ch)
RECURSIVE lstrip(_, _)
lstrip(s, ch) ==
    IF s # <<>> /\ Head(s) = ch THEN lstrip(Tail(s), ch) ELSE s

\* The value of a string of decimal digits, most significant first.
RECURSIVE DigitsValue(_, _)
DigitsValue(s, acc) ==
    IF s = <<>> THEN acc
    ELSE DigitsValue(Tail(s),
            10 * acc + (CHOOSE k \in 0..9 : DigitChars[k + 1] = Head(s)))

\* pydantic's validation of an int field: an int is kept, a str goes
\* through int().
int_validator(v) ==
    IF isinstance(v, "int") THEN Return(v.value)
    ELSE IF /\ v.value # <<>>
            /\ \A k \in 1..Len(v.value) : \E n \in 1..10 : DigitChars[n] = v.value[k]
    THEN Return(DigitsValue(v.value, 0))
    ELSE Raise("ValidationError")

\* The pipeline_level argument of _ingest_ssdc_ms.
\* Variant: the level is passed on as the metadata gives it.
pipeline_levelKeepPrefix(metadata_level) == metadata_level

pipeline_level(metadata_level) ==
    IF isinstance(metadata_level, "int") THEN metadata_level
    ELSE StrValue(lstrip(metadata_level.value, "L"))

\* SpherexMsDocument(...): the document fields with diagram_index and
\* pipeline_level validated as ints.
SpherexMsDocument(document, diagram_index, level) ==
    IF int_validator(level).exc # None THEN Raise("ValidationError")
    ELSE Return([base |-> document,
                 diagram_index |-> diagram_index,
                 pipeline_level |-> int_validator(level).val])

\* SpherexMsDocument.diagram_ref
diagram_ref(doc) ==
    <<"L">> \o DecimalDigits(doc.pipeline_level) \o <<".">>
        \o DecimalDigits(doc.diagram_index)

\* SpherexMsDocument.sortable_diagram_ref
\* Variant: the index is not padded.
sortable_diagram_refUnpadded(doc) == diagram_ref(doc)

sortable_diagram_ref(doc) ==
    <<"L">> \o DecimalDigits(doc.pipeline_level) \o <<".">>
        \o ZeroPad(DecimalDigits(doc.diagram_index), 2)

\* What the metadata of a Module-Spec project may give as its pipeline level.
MetadataLevels ==
    {IntValue(n) : n \in 0..MaxLevel}
    \cup {StrValue(<<"L">> \o DecimalDigits(n)) : n \in 0..MaxLevel}
    \cup {StrValue(DecimalDigits(n)) : n \in 0..MaxLevel}
    \cup {StrValue(<<"L", "L", "1">>), StrValue(<<"l", "1">>), StrValue(<<"L">>)}

\* The fields of a document that neither validation nor the references read.
DomainDocument(latest_commit_datetime, github_release) ==
    SpherexDocument(<<"d","o","c","s","/">> \o Universe[1].slug, "SSDC-MS",
        "SSDC-MS-001", "title", Universe[1].slug, "spherex",
        RepoUrl(GitHubHost, Universe[1].slug),
        GitHubIssueCount(0, 0,
            RepoUrl(GitHubHost, Universe[1].slug) \o <<"/","i","s","s","u","e","s">>,
            RepoUrl(GitHubHost, Universe[1].slug) \o <<"/","p","u","l","l","s">>),
        github_release, latest_commit_datetime, "author")

InitDomain ==
    /\ IdleStore
    /\ IdleRun
    /\ IdleBucket /\ IdleToken /\ IdleConcurrent /\ IdleSeed
    /\ IdleDataset
    /\ entity = None

\* One value is followed per behaviour: a constructor call depends on no
\* earlier one, except through the value it is given.
Constructed(kind, input, value) ==
    /\ entity' = Some([kind |-> kind, input |-> input, value |-> value])
    /\ UNCHANGED <<storeVars, upstreamVars, runVars, bucketVars, tokenVars,
                   concurrentVars, seedVars, datasetVars>>

\* GitHubRelease(tag=..., date_created=dt)
ConstructGitHubRelease(dt) ==
    /\ entity = None
    /\ Constructed("GitHubRelease", dt, GitHubRelease("v1", dt))

\* A document built with the latest commit's datetime and, optionally, a
\* release built before it.
ConstructDocument(dt) ==
    \/ /\ entity = None
       /\ Constructed("SpherexDocument", dt, DomainDocument(dt, None))
    \/ /\ entity # None
       /\ entity[1].kind = "GitHubRelease"
       /\ Constructed("SpherexDocument", dt,
                      DomainDocument(dt, Some(entity[1].value)))

\* The SpherexMsDocument(...) call of _ingest_ssdc_ms.
ConstructMsDocument(diagram_index, metadata_level) ==
    /\ entity = None
    /\ Constructed("SpherexMsDocument",
                   [diagram_index |-> diagram_index,
                    pipeline_level |-> metadata_level],
                   SpherexMsDocument(DomainDocument(Datetime(0, "UTC"), None),
                                     diagram_index,
                                     pipeline_level(metadata_level)))

\* Reading the two references of the Module-Spec document built last.
ReadDiagramRef ==
    /\ entity # None
    /\ entity[1].kind = "SpherexMsDocument"
    /\ entity[1].value.exc = None
    /\ Constructed("diagram_ref", entity[1].value.val,
                   [diagram_ref |-> diagram_ref(entity[1].value.val),
                    sortable_diagram_ref |->
                        sortable_diagram_ref(entity[1].value.val)])

NextDomain ==
    \/ \E dt \in Datetimes : ConstructGitHubRelease(dt)
    \/ \E dt \in Datetimes : ConstructDocument(dt)
    \/ \E i \in 0..MaxIndex, level \in MetadataLevels :
          ConstructMsDocument(i, level)
    \/ ReadDiagramRef

SpecDomain == InitDomain /\ [][NextDomain]_vars


(***************************************************************************)
(* Properties of the store specification                                   *)
(***************************************************************************)
\* C1: after any sequence of upserts, each category holds exactly one entity
\* per upserted project_id, and it is the document of the last upsert with
\* that project_id.
C1_UpsertLastWriteWins ==
    \A c \in Categories :
        /\ scan(redis, KeyPrefix[c]) = DOMAIN written[c]
        /\ Len(get_all(redis, KeyPrefix[c])) = Cardinality(DOMAIN written[c])
        /\ \A id \in DOMAIN written[c] :
              /\ get(redis, KeyPrefix[c], id) = Some(written[c][id])
              /\ Cardinality({i \in 1..Len(get_all(redis, KeyPrefix[c])) :
                    get_all(redis, KeyPrefix[c])[i].project_id = id}) = 1

\* Two upserts went to one key and the entry carries the second title.
C1_Witness ==
    /\ calls = 2
    /\ Cardinality(DOMAIN redis) = 1
    /\ \A k \in DOMAIN redis : redis[k].title = "second"

\* StoreIds as Python sorts them.
SortedStoreIds ==
    <<<<"s","s","d","c","-","1">>, <<"s","s","d","c","-","1","0">>,
      <<"s","s","d","c","-","2">>>>

Position(id) == CHOOSE i \in 1..Len(SortedStoreIds) : SortedStoreIds[i] = id

\* C2: get_all returns every document upserted into the category, in
\* ascending order of project_id, whatever the order of the upserts.
C2_GetAllSorted ==
    result # None =>
        LET c == result[1].category
            ps == result[1].projects
        IN  /\ {ps[i].project_id : i \in 1..Len(ps)} = DOMAIN written[c]
            /\ \A i \in 1..Len(ps) : ps[i] = written[c][ps[i].project_id]
            /\ \A i, j \in 1..Len(ps) :
                  i < j => /\ StrLess(ps[i].project_id, ps[j].project_id)
                           /\ Position(ps[i].project_id) < Position(ps[j].project_id)

\* A read returned three documents.
C2_Witness ==
    /\ result # None
    /\ Len(result[1].projects) = 3

(***************************************************************************)
(* Properties of the refresh run                                           *)
(***************************************************************************)
Listed == 1..Len(ltd.projects)
SlugOf(i) == ltd.projects[i].slug
Recognized(i) == Universe[IndexOf(SlugOf(i))].store # "none"
MetadataFails(i) == s3[SlugOf(i)] = None
RepositoryUrl(i) == s3[SlugOf(i)][1].repository_url

\* The run has been through _ingest_project for the i-th listed project.
Processed(i) == projects # None /\ i < idx

\* The entry of the i-th listed project in its category store.
Entry(r, i) == get(r, KeyPrefix[Universe[IndexOf(SlugOf(i))].store], SlugOf(i))

\* An installation client exists for the project's repository.
ClientAvailable(i) ==
    /\ config.github_factory
    /\ ~MetadataFails(i)
    /\ startswith(RepositoryUrl(i), GitHubHost)
    /\ github[RepositoryUrl(i)].install

\* Some request made for the project raises.
SourceRaises(i) ==
    \/ MetadataFails(i)
    \/ /\ config.github_factory
       /\ startswith(RepositoryUrl(i), GitHubHost)
       /\ \/ ~github[RepositoryUrl(i)].install
          \/ github[RepositoryUrl(i)].repo = None
          \/ github[RepositoryUrl(i)].issues = None
          \/ github[RepositoryUrl(i)].release = None

RunEnded == runs >= 1 /\ pc \in {"Done", "Failed"}

\* C3: a second run against the same upstream data leaves every category
\* store as the first run left it.
C3_RefreshIdempotent ==
    (runs >= 2 /\ pc \in {"Done", "Failed"}) => redis = startStore

\* A second run completed after upserting two projects.
C3_Witness ==
    /\ runs = 2
    /\ pc = "Done"
    /\ Cardinality(ingested) = 2

\* C4: when exactly project k of N recognized projects raises MetadataError
\* (and no request of the other projects raises), the run completes, the
\* other N-1 projects are upserted and the one warning names project k.
C4_FailureIsolation ==
    \A k \in Listed :
        ( /\ RunEnded
          /\ config.aws_access_key_id /\ config.aws_access_key_secret
          /\ \A i \in Listed : Recognized(i)
          /\ MetadataFails(k)
          /\ \A j \in Listed \ {k} : ~SourceRaises(j) )
        => /\ pc = "Done"
           /\ ingested = {SlugOf(j) : j \in Listed \ {k}}
           /\ \A j \in Listed \ {k} :
                 Entry(redis, j) # None /\ Entry(redis, j)[1].title = "live"
           /\ warnings = <<[event |-> "Could not ingest metadata",
                            subject |-> SlugOf(k)]>>

\* The second of three projects failed; the first and the third were upserted.
C4_Witness ==
    /\ pc = "Done"
    /\ Len(ltd.projects) = 3
    /\ \A i \in Listed : Recognized(i)
    /\ MetadataFails(2)
    /\ ingested = {SlugOf(1), SlugOf(3)}
    /\ Len(warnings) = 1

\* C5: a project whose ingestion fails with MetadataError keeps the store
\* entry it had when the run started, present or absent.
C5_MetadataErrorKeepsEntry ==
    \A i \in Listed :
        (runs >= 1 /\ Recognized(i) /\ MetadataFails(i))
            => Entry(redis, i) = Entry(startStore, i)

\* A failing project was passed over and its earlier document is still there.
C5_Witness ==
    \E i \in Listed :
        /\ Processed(i)
        /\ Recognized(i)
        /\ MetadataFails(i)
        /\ Entry(redis, i) # None
        /\ warnings # <<>>

\* C6: without the object-store key pair the run fails at once: no project
\* is listed or ingested and the stores are as before.
C6_MissingKeyPairIsFatal ==
    (runs >= 1 /\ (~config.aws_access_key_id \/ ~config.aws_access_key_secret))
        => /\ pc = "Failed"
           /\ error = Some("RuntimeError")
           /\ projects = None
           /\ ingested = {}
           /\ warnings = <<>>
           /\ redis = startStore

\* A run was refused with only the secret missing, the store holding documents.
C6_Witness ==
    /\ runs >= 1
    /\ config.aws_access_key_id
    /\ ~config.aws_access_key_secret
    /\ ltd.projects # <<>>
    /\ redis = SeedRedis
    /\ pc = "Failed"

\* C7: a failing source-host request never fails the run, and the project
\* is upserted with defaults.
C7_SourceHostBestEffort ==
    /\ error # Some("GitHubError")
    /\ \A i \in Listed :
          (Processed(i) /\ Recognized(i) /\ ~MetadataFails(i))
              => SlugOf(i) \in ingested

\* The open items of the i-th listed project's repository.
ItemsOf(i) == github[RepositoryUrl(i)].issues[1]

\* C8: with a client available, the stored counts are the numbers of open
\* items that are not, and that are, pull requests.
C8_IssueCounts ==
    \A i \in Listed :
        (SlugOf(i) \in ingested /\ ClientAvailable(i))
            => /\ Entry(redis, i)[1].github_issues.open_issue_count
                    = Cardinality({n \in 1..Len(ItemsOf(i)) :
                            "pull_request" \notin ItemsOf(i)[n]})
               /\ Entry(redis, i)[1].github_issues.open_pr_count
                    = Cardinality({n \in 1..Len(ItemsOf(i)) :
                            "pull_request" \in ItemsOf(i)[n]})

\* C9: with no client for the repository URL the project is still upserted,
\* with zero counts, URLs derived from the repository URL, no release and
\* the last-rebuilt timestamp as latest_commit_datetime.
C9_DegradedDefaults ==
    \A i \in Listed :
        (Processed(i) /\ Recognized(i) /\ ~MetadataFails(i) /\ ~ClientAvailable(i))
            => /\ SlugOf(i) \in ingested
               /\ Entry(redis, i) # None
               /\ LET d == Entry(redis, i)[1]
                  IN  /\ d.github_issues.open_issue_count = 0
                      /\ d.github_issues.open_pr_count = 0
                      /\ d.github_issues.issue_url
                           = RepositoryUrl(i) \o <<"/","i","s","s","u","e","s">>
                      /\ d.github_issues.pr_url
                           = RepositoryUrl(i) \o <<"/","p","u","l","l","s">>
                      /\ d.github_release = None
                      /\ d.latest_commit_datetime.wall
                           = ltd.projects[i].default_edition.date_rebuilt.wall
                      /\ d.latest_commit_datetime.tz = "UTC"

\* A project without an installation was upserted.
C9_Witness ==
    \E i \in Listed :
        /\ Processed(i)
        /\ config.github_factory
        /\ ~MetadataFails(i)
        /\ startswith(RepositoryUrl(i), GitHubHost)
        /\ ~github[RepositoryUrl(i)].install
        /\ SlugOf(i) \in ingested

\* C10: in every category the stored latest_commit_datetime is the
\* repository's last push when a client is available, and the last-rebuilt
\* timestamp only when none is.
C10_LatestCommitDatetime ==
    \A i \in Listed :
        SlugOf(i) \in ingested
            => Entry(redis, i)[1].latest_commit_datetime =
                  IF ClientAvailable(i)
                  THEN github[RepositoryUrl(i)].repo[1].pushed_at
                  ELSE _ensure_timezone(ltd.projects[i].default_edition.date_rebuilt)

\* C12: a project whose slug matches none of the seven category prefixes is
\* skipped silently: its step of the loop makes no fetch (so neither a
\* MetadataError warning nor a source-host error can come of it), upserts
\* nothing, records no warning or error, and moves on to the next project.
C12_UnrecognizedSkipped ==
    [][ ( /\ pc = "PerProjectIngest"
          /\ idx <= Len(projects[1])
          /\ Universe[IndexOf(projects[1][idx].slug)].store = "none" )
        => ( /\ idx' = idx + 1
             /\ pc' = pc
             /\ redis' = redis
             /\ ingested' = ingested
             /\ warnings' = warnings
             /\ error' = error ) ]_vars

\* An unrecognized project whose metadata object cannot be fetched was passed
\* over without a trace, and the project after it was ingested.
C12_Witness ==
    \E i \in Listed :
        /\ ~Recognized(i)
        /\ MetadataFails(i)
        /\ Processed(i)
        /\ i < Len(ltd.projects)
        /\ SlugOf(i + 1) \in ingested
        /\ warnings = <<>>
        /\ \A c \in Categories : get(redis, KeyPrefix[c], SlugOf(i)) = None

\* C13: for a repository URL https://github.com/{owner}/{repo} the owner and
\* the repo name handed to the source-host client factory are exactly that
\* owner and that repo; checked for every project whose ingestion asked for
\* an installation client.
C13_ResolvesOwnerAndRepo ==
    \A i \in Listed :
        ( /\ Processed(i)
          /\ Recognized(i)
          /\ ~MetadataFails(i)
          /\ config.github_factory
          /\ startswith(RepositoryUrl(i), GitHubHost) )
        => _parse_github_repo_url(RepositoryUrl(i)) = <<OwnerLogin, SlugOf(i)>>

(***************************************************************************)
(* Properties of the object-store metadata client                          *)
(***************************************************************************)
\* The response the object store gives for the handle of the last call.
Answer == bucket[MetadataKey(fetched[1].handle)]

\* The fetch or the parse of the last call failed: transport error, non-2xx
\* status, body that is not JSON, or body that fails model validation.
FetchOrParseFailed ==
    \/ Answer.error # None
    \/ Answer.status < 200
    \/ Answer.status >= 300
    \/ Answer.body.json = None
    \/ ~(RequiredFields \subseteq DOMAIN Answer.body.json[1])

\* C11: every failure to fetch or parse a metadata object (network error,
\* non-2xx response, body that is not JSON, body failing validation) leaves
\* get_ssdc_ms_metadata as a MetadataError carrying the reason, the handle
\* and the underlying cause; no other exception type escapes.
C11_OnlyMetadataError ==
    (fetched # None /\ FetchOrParseFailed) =>
        /\ fetched[1].out.exc # None
        /\ fetched[1].out.exc[1].type = "MetadataError"
        /\ fetched[1].out.exc[1].handle = fetched[1].handle
        /\ fetched[1].out.exc[1].reason \in
              {"Could not get metadata object", "Could not parse metadata object"}
        /\ fetched[1].out.exc[1].exc \in HTTPError \cup {"ValidationError"}

(***************************************************************************)
(* Properties of the documentation-host token cache                        *)
(***************************************************************************)
\* A token obtained for the credential pair is within its validity window.
TokenValid ==
    \E n \in 1..Len(exchanges) :
        exchanges[n].done # None /\ now < exchanges[n].done[1] + TokenTtl

\* C14: the token is cached per credential pair for 600 s: while a token
\* obtained with the pair is within its window no get_organization or
\* get_projects call sends GET /token again, and a call that finds no token
\* within the window, none being requested, sends it.
C14_TokenCachedPerCredentials ==
    [][ /\ (Len(exchanges') > Len(exchanges)) => ~TokenValid
        /\ ( /\ \E run \in 1..MaxCallers :
                   /\ callers[run].pc \in {"OrgToken", "ProjectsToken"}
                   /\ callers'[run].pc # callers[run].pc
             /\ ~TokenValid
             /\ inflight = {} )
           => Len(exchanges') = Len(exchanges) + 1 ]_vars

\* C15: token refresh is single-flight: when several callers ask for the
\* token of the credential pair while none is cached, one GET /token is in
\* flight and the others wait for its result.
C15_SingleFlight == Cardinality(inflight) <= 1

(***************************************************************************)
(* Properties of concurrent store callers                                  *)
(***************************************************************************)
\* C16: a get_all that runs while upserts go to the same category never
\* returns a partially written entity: every entity it has read, and every
\* entity of the list it returns, is in full the document some completed
\* upsert committed under that key.
C16_NoPartialEntity ==
    /\ \A n \in 1..Len(reader[1].projects) :
          [key |-> KeyPrefix[reader[1].category] \o reader[1].projects[n].project_id,
           project |-> reader[1].projects[n]] \in committed
    /\ result # None =>
          \A n \in 1..Len(result[1].projects) :
              [key |-> KeyPrefix[result[1].category] \o result[1].projects[n].project_id,
               project |-> result[1].projects[n]] \in committed

\* A get_all returned two entities although both writers upserted into its
\* category between its scan and its return, one of them replacing an entity.
C16_Witness ==
    /\ result # None
    /\ Len(result[1].projects) = 2
    /\ reader[1].during >= 2
    /\ \E n \in 1..2 : result[1].projects[n].title = "seed"
    /\ \E n \in 1..2 : result[1].projects[n].title = "live"

\* C17: concurrent upserts are safe: each completed upsert leaves under its
\* key exactly the full document it was given, whatever another writer had
\* stored there, and leaves every other key as it was.
C17_ConcurrentUpsertsSafe ==
    [][ (writes' # writes) =>
          /\ DOMAIN redis' =
                DOMAIN redis \cup
                   {KeyPrefix[last'[1].category] \o last'[1].project.project_id}
          /\ \A k \in DOMAIN redis' :
                redis'[k] =
                   IF k = KeyPrefix[last'[1].category] \o last'[1].project.project_id
                   THEN last'[1].project
                   ELSE redis[k] ]_vars

\* Both writers upserted the same key, the seed load last, while another key
\* of the category written by the refresh run is still there.
C17_Witness ==
    /\ writes["refresh"] = 2
    /\ writes["seed"] = 1
    /\ last # None
    /\ last[1].writer = "seed"
    /\ \E k \in DOMAIN redis :
          /\ redis[k] = last[1].project
          /\ [key |-> k, project |-> WriterDocument("refresh", last[1].project.project_id)]
                \in committed
          /\ \E j \in DOMAIN redis \ {k} :
                /\ redis[j].title = "live"
                /\ startswith(j, KeyPrefix[last[1].category])

(***************************************************************************)
(* Properties of the seed loader                                           *)
(***************************************************************************)
\* The seed file does not parse or does not validate.
FileInvalid ==
    \/ seedfile = None
    \/ \E c \in Categories : \E n \in 1..Len(seedfile[1][c]) :
          ~(RequiredSeedFields \subseteq DOMAIN seedfile[1][c][n])

\* C18: if the seed file fails to parse or validate, for any category list,
\* the load fails before any upsert: every category store is as it was.
C18_NoPartialLoad ==
    (FileInvalid /\ loader[1].pc # "NotStarted") =>
        /\ loader[1].pc = "Failed"
        /\ loader[1].error # None
        /\ mockdata = None
        /\ redis = loader[1].start
        /\ \A c \in Categories : written[c] = EmptyRedis

\* The load of a file failed whose Module-Spec list is valid and whose last
\* list is not; the stores still hold what they held.
C18_Witness ==
    /\ loader[1].pc = "Failed"
    /\ seedfile # None
    /\ Len(seedfile[1]["ssdc_ms"]) = 1
    /\ RequiredSeedFields \subseteq DOMAIN seedfile[1]["ssdc_ms"][1]
    /\ Len(seedfile[1]["ssdc_op"]) = 1
    /\ ~(RequiredSeedFields \subseteq DOMAIN seedfile[1]["ssdc_op"][1])
    /\ redis = SeedRedis

\* The project_ids of each list of the file are distinct.
DistinctSeedIds ==
    \A c \in Categories : \A n \in 1..Len(seedfile[1][c]) :
        \A m \in 1..Len(seedfile[1][c]) :
            seedfile[1][c][n].project_id = seedfile[1][c][m].project_id => n = m

\* The handles of a list of documents or entries.
HandlesOf(list) == {list[n].handle : n \in 1..Len(list)}

\* C19: after a valid seed file with distinct project_ids is loaded into
\* empty stores, get_all on each category returns one document per entry of
\* the category's list, with the entries' handles, ascending by project_id.
C19_SeedRoundTrip ==
    ( /\ loader[1].pc = "Done"
      /\ loader[1].start = EmptyRedis
      /\ DistinctSeedIds )
    => /\ \A c \in Categories :
             /\ Len(get_all(redis, KeyPrefix[c])) = Len(seedfile[1][c])
             /\ HandlesOf(get_all(redis, KeyPrefix[c])) = HandlesOf(seedfile[1][c])
             /\ \A n \in 1..Len(get_all(redis, KeyPrefix[c])) :
                   \A m \in 1..Len(get_all(redis, KeyPrefix[c])) :
                       n < m => StrLess(get_all(redis, KeyPrefix[c])[n].project_id,
                                        get_all(redis, KeyPrefix[c])[m].project_id)
       /\ result # None =>
             result[1].projects = get_all(redis, KeyPrefix[result[1].category])

\* The file lists SSDC-MS-002 before SSDC-MS-001 and the Module-Spec category
\* reads back as SSDC-MS-001, SSDC-MS-002.
C19_Witness ==
    /\ loader[1].pc = "Done"
    /\ loader[1].start = EmptyRedis
    /\ Len(seedfile[1]["ssdc_ms"]) = 2
    /\ seedfile[1]["ssdc_ms"][1].handle = "SSDC-MS-002"
    /\ seedfile[1]["ssdc_ms"][2].handle = "SSDC-MS-001"
    /\ result # None
    /\ result[1].category = "ssdc_ms"
    /\ Len(result[1].projects) = 2
    /\ result[1].projects[1].handle = "SSDC-MS-001"
    /\ result[1].projects[2].handle = "SSDC-MS-002"

\* C20: every document the seed loader upserts into a category's store has
\* the category's code as its series: SSDC-MS, SSDC-PM, SSDC-IF, SSDC-DP,
\* SSDC-TR, SSDC-TN, SSDC-OP.
C20_SeedSeriesIsCategoryCode ==
    \A c \in Categories : \A id \in DOMAIN written[c] :
        written[c][id].series =
            Universe[CHOOSE i \in 1..Len(Universe) : Universe[i].store = c].series

(***************************************************************************)
(* Properties of the static document repository                            *)
(***************************************************************************)
\* How many times document d occurs in the list docs.
Occurrences(docs, d) == Cardinality({i \in 1..Len(docs) : docs[i] = d})

\* C21: get_ms_by_handle returns every Module-Spec document of the parsed
\* dataset exactly once, in ascending order of handle when ascending is true
\* and in descending order when it is false, and leaves the dataset as it
\* was.
C21_ListedByHandle ==
    [][listing' # listing =>
          /\ dataset' = dataset
          /\ Len(listing'[1].documents) = Len(dataset[1].ssdc_ms)
          /\ \A d \in Documents("ssdc_ms") :
                Occurrences(listing'[1].documents, d)
                    = Occurrences(dataset[1].ssdc_ms, d)
          /\ \A i, j \in 1..Len(listing'[1].documents) :
                i < j =>
                   IF listing'[1].ascending
                   THEN ~StrLess(listing'[1].documents[j].handle,
                                 listing'[1].documents[i].handle)
                   ELSE ~StrLess(listing'[1].documents[i].handle,
                                 listing'[1].documents[j].handle)]_vars

\* A descending listing of a dataset that holds three different handles in
\* ascending order.
C21_Witness ==
    /\ listing # None
    /\ ~listing[1].ascending
    /\ Len(dataset[1].ssdc_ms) = 3
    /\ StrLess(dataset[1].ssdc_ms[1].handle, dataset[1].ssdc_ms[2].handle)
    /\ StrLess(dataset[1].ssdc_ms[2].handle, dataset[1].ssdc_ms[3].handle)
    /\ listing[1].documents[1] = dataset[1].ssdc_ms[3]
    /\ listing[1].documents[3] = dataset[1].ssdc_ms[1]

(***************************************************************************)
(* Properties of the construction of domain values                         *)
(***************************************************************************)
\* What the validator must make of the datetime given to the constructor.
Normalized(given, stored) ==
    /\ stored.tz # "naive"
    /\ stored.wall = given.wall
    /\ given.tz = "naive" => stored.tz = "UTC"
    /\ given.tz # "naive" => stored = given

C23_PipelineLevel ==
    (entity # None /\ entity[1].kind = "SpherexMsDocument") =>
       \A n \in 0..MaxLevel :
          (\/ entity[1].input.pipeline_level = IntValue(n)
           \/ entity[1].input.pipeline_level
                 = StrValue(<<"L">> \o DecimalDigits(n)))
             => /\ entity[1].value.exc = None
                /\ entity[1].value.val.pipeline_level = n

\* The level "L3" stored as the integer 3.
C23_Witness ==
    /\ entity # None
    /\ entity[1].kind = "SpherexMsDocument"
    /\ entity[1].input.pipeline_level = StrValue(<<"L", "3">>)
    /\ entity[1].value.exc = None
    /\ entity[1].value.val.pipeline_level = 3

\* The digits of a diagram index, with a leading zero below ten.
TwoDigits(n) == IF n < 10 THEN <<"0">> \o DecimalDigits(n) ELSE DecimalDigits(n)

\* C24: diagram_ref is "L<pipeline_level>.<diagram_index>" and
\* sortable_diagram_ref is the same with the index written in at least two
\* digits (level 2, index 7: "L2.7" and "L2.07"); for a diagram index in
\* 0..99 the sortable reference is below that of another index in 0..99 of
\* the same level, as strings, exactly when the index is smaller.
C24_DiagramRef ==
    (entity # None /\ entity[1].kind = "diagram_ref") =>
       /\ entity[1].value.diagram_ref
             = <<"L">> \o DecimalDigits(entity[1].input.pipeline_level)
                  \o <<".">> \o DecimalDigits(entity[1].input.diagram_index)
       /\ entity[1].value.sortable_diagram_ref
             = <<"L">> \o DecimalDigits(entity[1].input.pipeline_level)
                  \o <<".">> \o TwoDigits(entity[1].input.diagram_index)
       /\ (entity[1].input.pipeline_level = 2
              /\ entity[1].input.diagram_index = 7) =>
             /\ entity[1].value.diagram_ref = <<"L", "2", ".", "7">>
             /\ entity[1].value.sortable_diagram_ref = <<"L", "2", ".", "0", "7">>
       /\ entity[1].input.diagram_index \in 0..99 =>
             \A j \in 0..99 :
                StrLess(entity[1].value.sortable_diagram_ref,
                        sortable_diagram_ref(
                            [entity[1].input EXCEPT !.diagram_index = j]))
                   <=> entity[1].input.diagram_index < j

\* The references of level 2, index 7.
C24_Witness ==
    /\ entity # None
    /\ entity[1].kind = "diagram_ref"
    /\ entity[1].input.pipeline_level = 2
    /\ entity[1].input.diagram_index = 7
    /\ entity[1].value.sortable_diagram_ref = <<"L", "2", ".", "0", "7">>

(***************************************************************************)
(* Properties of the course of a refresh run                               *)
(***************************************************************************)
\* What ListProjects does to the position of the run.
ListProjectsPosition ==
    /\ pc = "ListingProjects"
    /\ pc' = "PerProjectIngest"
    /\ idx' = 1

\* What IngestProject does to the position of the run: the loop moves on, or
\* the call raises.
IngestProjectPosition ==
    /\ pc = "PerProjectIngest"
    /\ idx <= Len(projects[1])
    /\ \/ pc' = pc /\ idx' = idx + 1
       \/ pc' = "Failed" /\ idx' = idx

\* The refresh run with its scheduling: the worker awaits bootstrap_from_api
\* as one coroutine, so a started run goes on whenever a step is possible.
\* From a position where ListProjects or IngestProject is enabled it is the
\* only action of Next that is, so fairness is stated on the action's effect
\* on the position.
SpecFair ==
    /\ Spec
    /\ WF_<<pc, idx>>(ListProjectsPosition)
    /\ WF_<<pc, idx>>(IngestProjectPosition)
    /\ WF_<<pc, idx>>(FinishRun)

\* The steps a run may take from one position to another.
RunTransitions ==
    {<<"NotStarted", "ListingProjects">>, <<"NotStarted", "Failed">>,
     <<"Done", "ListingProjects">>, <<"Done", "Failed">>,
     <<"Failed", "ListingProjects">>, <<"Failed", "Failed">>,
     <<"ListingProjects", "PerProjectIngest">>,
     <<"PerProjectIngest", "PerProjectIngest">>,
     <<"PerProjectIngest", "Done">>, <<"PerProjectIngest", "Failed">>}

\* The keys whose entry differs between two keyspaces.
ChangedKeys(r1, r2) ==
    {k \in DOMAIN r1 \cup DOMAIN r2 :
        k \notin DOMAIN r1 \/ k \notin DOMAIN r2 \/ r1[k] # r2[k]}

\* Every request made for every listed project is answered without error.
SourcesRespond == ~KeyPairMissing /\ \A i \in Listed : ~SourceRaises(i)

\* C25: a run goes NotStarted -> ListingProjects -> PerProjectIngest* ->
\* Done. The organization is fetched once, when the run starts, and the
\* project list once, before any ingestion; the projects are then ingested
\* one at a time in list order, each step touching only the entry of the
\* project at the current index; and when every source answers, a run that
\* is listing its projects reaches Done.
C25_RunCourse ==
    /\ [][/\ <<pc, pc'>> \in RunTransitions
          /\ (org' # org \/ runs' # runs) =>
                /\ runs' = runs + 1
                /\ org' = Some(ltd.org)
                /\ projects' = None
          /\ (projects' # projects /\ runs' = runs) =>
                /\ pc = "ListingProjects"
                /\ org # None
                /\ projects = None
                /\ projects' = Some(ltd.projects)
                /\ ingested = {}
                /\ redis' = redis
          /\ (runs' = runs /\ (redis' # redis \/ ingested' # ingested
                                   \/ idx' # idx) /\ projects' = projects) =>
                /\ pc = "PerProjectIngest"
                /\ org # None /\ projects # None
                /\ idx \in 1..Len(projects[1])
                /\ idx' \in {idx, idx + 1}
                /\ idx' = idx => pc' = "Failed"
                /\ ingested' \subseteq ingested \cup {projects[1][idx].slug}
                /\ ChangedKeys(redis, redis') \subseteq
                      {KeyPrefix[c] \o projects[1][idx].slug : c \in Categories}
          /\ pc' = "Done" /\ pc # "Done" =>
                idx = Len(projects[1]) + 1]_vars
    /\ (pc = "ListingProjects" /\ SourcesRespond) ~> (pc = "Done")

\* A run that ended after ingesting three projects, one after the other.
C25_Witness ==
    /\ pc = "Done"
    /\ SourcesRespond
    /\ Len(ltd.projects) = 3
    /\ idx = 4
    /\ Cardinality(ingested) = 3

\* The ingestion of the i-th listed project raises an error that is not a
\* MetadataError: a request made with its installation client raises.
AbortsRun(i) ==
    /\ Recognized(i)
    /\ ClientAvailable(i)
    /\ \/ github[RepositoryUrl(i)].repo = None
       \/ github[RepositoryUrl(i)].issues = None
       \/ github[RepositoryUrl(i)].release = None

\* C26: an error other than MetadataError raised for project k ends the run
\* at project k: the projects after k are not ingested and their entries
\* are as the run found them, and the projects before k that were upserted
\* keep their new documents.
C26_OtherErrorsAbort ==
    \A k \in Listed :
        ( /\ RunEnded
          /\ ~KeyPairMissing
          /\ AbortsRun(k)
          /\ \A j \in Listed : j < k => ~AbortsRun(j) )
        => /\ pc = "Failed"
           /\ error # None
           /\ error # Some("MetadataError")
           /\ idx = k
           /\ SlugOf(k) \notin ingested
           /\ \A j \in Listed :
                 (j >= k /\ Recognized(j)) =>
                    /\ SlugOf(j) \notin ingested
                    /\ Entry(redis, j) = Entry(startStore, j)
           /\ \A j \in Listed :
                 (j < k /\ Recognized(j) /\ ~MetadataFails(j)) =>
                    /\ SlugOf(j) \in ingested
                    /\ Entry(redis, j) # None
                    /\ Entry(redis, j)[1].title = "live"

\* The second of three projects aborted the run: the first has its new
\* document, the third the one it had before the run.
C26_Witness ==
    /\ pc = "Failed"
    /\ Len(ltd.projects) = 3
    /\ \A i \in Listed : Recognized(i)
    /\ AbortsRun(2)
    /\ idx = 2
    /\ ingested = {SlugOf(1)}
    /\ Entry(redis, 1)[1].title = "live"
    /\ Entry(redis, 3) # None
    /\ Entry(redis, 3)[1].title = "seed"

\* C27: when no installation maps to the repository of a project, the
\* defaults are stored and no warning is logged for that project.
C27_SilentDegrade ==
    \A i \in Listed :
        (Processed(i) /\ Recognized(i) /\ ~MetadataFails(i)
            /\ ~ClientAvailable(i))
            => /\ SlugOf(i) \in ingested
               /\ \A n \in 1..Len(warnings) :
                     warnings[n].subject \notin {SlugOf(i), RepositoryUrl(i)}

(***************************************************************************)
(* Properties of what the writers leave alone                              *)
(***************************************************************************)
\* C28: an upsert of d into a category changes only the entry of
\* d.project_id in that category: the other entries of the category and
\* every entry of the other categories, one with the same project_id
\* included, are as before; get_all changes no entry.
C28_UpsertFrame ==
    [][/\ calls' # calls =>
             \E c \in Categories :
                \E id \in DOMAIN written'[c] :
                   /\ written' = [written EXCEPT ![c] = written'[c]]
                   /\ \A k \in DOMAIN written[c] \ {id} :
                         written'[c][k] = written[c][k]
                   /\ redis'[KeyPrefix[c] \o id] = written'[c][id]
                   /\ ChangedKeys(redis, redis') \subseteq {KeyPrefix[c] \o id}
                   /\ \A c2 \in Categories \ {c} :
                         /\ get(redis', KeyPrefix[c2], id)
                               = get(redis, KeyPrefix[c2], id)
                         /\ get_all(redis', KeyPrefix[c2])
                               = get_all(redis, KeyPrefix[c2])
       /\ calls' = calls => redis' = redis]_vars

\* Two categories hold the same project_id with different documents, and a
\* read has returned one of them.
C28_Witness ==
    /\ result # None
    /\ \E id \in StoreIds :
          /\ get(redis, KeyPrefix["ssdc_ms"], id) # None
          /\ get(redis, KeyPrefix["ssdc_pm"], id) # None
          /\ get(redis, KeyPrefix["ssdc_ms"], id)[1].title = "first"
          /\ get(redis, KeyPrefix["ssdc_pm"], id)[1].title = "second"

\* The keys under which a listed project can be stored.
ListedKeys ==
    {KeyPrefix[c] \o SlugOf(i) : c \in Categories, i \in Listed}

SlugPrefix ==
    [ssdc_ms |-> <<"s","s","d","c","-","m","s">>,
     ssdc_pm |-> <<"s","s","d","c","-","p","m">>,
     ssdc_if |-> <<"s","s","d","c","-","i","f">>,
     ssdc_dp |-> <<"s","s","d","c","-","d","p">>,
     ssdc_tr |-> <<"s","s","d","c","-","t","r">>,
     ssdc_tn |-> <<"s","s","d","c","-","t","n">>,
     ssdc_op |-> <<"s","s","d","c","-","o","p">>]

\* C30: a listed project that was upserted is in the store of the one
\* category whose prefix its slug starts with, under its slug, with the
\* fetched organization's slug as organization_id, and the entry of its slug
\* in every other store is as the run found it; no prefix is a prefix of
\* another, so no slug matches two categories.
C30_CategoryRouting ==
    /\ \A c1, c2 \in Categories :
          c1 # c2 => ~startswith(SlugPrefix[c1], SlugPrefix[c2])
    /\ \A i \in Listed :
          (Processed(i) /\ SlugOf(i) \in ingested) =>
             \E c \in Categories :
                /\ startswith(SlugOf(i), SlugPrefix[c])
                /\ \A c2 \in Categories \ {c} :
                      /\ ~startswith(SlugOf(i), SlugPrefix[c2])
                      /\ get(redis, KeyPrefix[c2], SlugOf(i))
                            = get(startStore, KeyPrefix[c2], SlugOf(i))
                /\ get(redis, KeyPrefix[c], SlugOf(i)) # None
                /\ get(redis, KeyPrefix[c], SlugOf(i))[1].project_id = SlugOf(i)
                /\ get(redis, KeyPrefix[c], SlugOf(i))[1].organization_id
                      = org[1].slug
                /\ get(redis, KeyPrefix[c], SlugOf(i))[1].title = "live"

\* Three projects of three categories were upserted into an empty store.
C30_Witness ==
    /\ pc = "Done"
    /\ startStore = EmptyRedis
    /\ Cardinality(ingested) = 3
    /\ Cardinality(DOMAIN redis) = 3
    /\ \E i \in Listed :
          get(redis, KeyPrefix["ssdc_pm"], SlugOf(i)) # None

====
